---- MODULE Spec2Model ----
(***************************************************************************)
(* AgentBridge: the agent execution and streaming orchestration pipeline.  *)
(*                                                                         *)
(* Part 1, RequestSerializer: src/messaging/messageQueue.ts                *)
(*   createMessageQueueProcessor (enqueueMessage / processQueue).          *)
(*                                                                         *)
(* JavaScript runs each callback to its next await without interruption,   *)
(* so one action of this module is one such run: from the point where a    *)
(* callback is entered or resumed up to the await where it suspends.       *)
(***************************************************************************)
EXTENDS Integers, Sequences, FiniteSets, TLC

\* ------------------------------------------------------------------ bounds

\* Number of enqueueMessage calls explored.
MaxMessages == 3

\* Number of chunks the agent's response is split into, at most.
MaxChunks == 3

\* Clock ticks explored after the turn starts.
MaxTicks == 3

\* ------------------------------------------------------- RequestSerializer

VARIABLES
    messageQueue,        \* messageQueue: the pending items, oldest first
    isQueueProcessing,   \* isQueueProcessing
    messageSequence,     \* messageSequence
    awaiting,            \* requestIds whose processQueue activation is suspended at `await processSingleMessage`
    executor,            \* per requestId: the processSingleMessage call made for it
    promise              \* per requestId: the promise enqueueMessage returned

queueVars == <<messageQueue, isQueueProcessing, messageSequence, awaiting, executor, promise>>

\* One processSingleTelegramMessage invocation (src/messaging/liveMessageProcessor.ts).
VARIABLES
    skipHybridMode,           \* messageContext.skipHybridMode
    requestText,              \* messageContext.text
    chatId,                   \* messageContext.chatId
    maxResponseLength,        \* parameter maxResponseLength
    response,                 \* the text the agent streams in this turn
    delivered,                \* how many characters of it have been passed to the chunk callback
    chunksSent,               \* how many chunk callbacks have been made
    now,                      \* Date.now()
    liveMessageId,            \* liveMessageId (0: undefined)
    previewBuffer,            \* previewBuffer
    lastFlushAt,              \* lastFlushAt
    lastChunkAt,              \* lastChunkAt
    finalizedViaLiveMessage,  \* finalizedViaLiveMessage
    startingLiveMessage,      \* startingLiveMessage (0: null, else the id of the flush that made the promise)
    promptCompleted,          \* promptCompleted
    modeDetected,             \* modeDetected
    isAsyncMode,              \* isAsyncMode
    prefixBuffer,             \* prefixBuffer
    debounceDue,              \* the pending timer of debouncedFlush (0: none)
    mainPc,                   \* where the body of processSingleTelegramMessage is suspended
    mainWaits,                \* the startingLiveMessage promise the body awaits at line 298, and its turn among the awaiters
    mainError,                \* the error the invocation rejects with once its finally block is done
    flushes,                  \* the suspended flushPreview activations
    chunkCalls,               \* the chunk callbacks suspended inside finalizeCurrentMessage
    nextHandle,               \* next message handle the platform hands out
    job,                      \* the promise scheduleAsyncJob returned, and its arguments
    lastCall,                 \* the latest call made on messageContext
    callCount,                \* calls made on messageContext so far, per operation
    finals,                   \* the final deliveries made so far (finalizeLiveMessage, final sendText)
    modeTransitions,          \* how many times (modeDetected, isAsyncMode) has changed
    typingStops,              \* calls of stopTypingIndicator
    tracked,                  \* calls of onConversationComplete
    invocations,              \* flushPreview snapshots taken and awaits of startingLiveMessage made so far
    edits                     \* the updateLiveMessage calls issued so far: handle, invocation, buffer length shown

streamVars == <<skipHybridMode, requestText, chatId, maxResponseLength, response, delivered,
                chunksSent, now, liveMessageId, previewBuffer, lastFlushAt, lastChunkAt,
                finalizedViaLiveMessage, startingLiveMessage, promptCompleted, modeDetected,
                isAsyncMode, prefixBuffer, debounceDue, mainPc, mainWaits, mainError, flushes,
                chunkCalls,
                nextHandle, job, lastCall, callCount, finals, modeTransitions,
                typingStops, tracked, invocations, edits>>

\* ----------------------------------------------------------- ProcessSession

VARIABLES
    timeoutMs,           \* options.timeoutMs
    noOutputTimeoutMs,   \* options.noOutputTimeoutMs (0: no idle timer)
    clock,               \* time since runPromptWithTempAcp was invoked
    runPc,               \* position of the function body: initialize, newSession, prompt, cleanup, returned
    tempSessionId,       \* tempSessionId ("none": null)
    tempCollector,       \* tempCollector is set
    tempResponse,        \* response: the chunks appended so far
    settledFlag,         \* settled (of the prompt promise's executor)
    cleanedUp,           \* cleanedUp
    noOutputTimeout,     \* when the idle timer is due (0: not armed)
    overallTimeout,      \* when the overall timer is due (0: not armed)
    promptState,         \* tempConnection.prompt: notSent, pending, answered
    cancelling,          \* timer callbacks suspended at `await tempConnection.cancel`
    cleanupPc,           \* cleanup(): notRun, cancel, terminate, done
    handler,             \* the handler settle() runs after cleanup, or the error the finally block rethrows
    runResult,           \* what the caller of runPromptWithTempAcp observes
    cancelCount,         \* tempConnection.cancel calls
    signals,             \* signals sent to the subprocess, in order
    killed,              \* tempProcess.killed
    exited,              \* tempProcess.exitCode !== null
    lastActivityAt,      \* when the prompt was sent or activity of the run's session was last seen
    fired,               \* the deadlines whose timer callback has run
    arrived,             \* the session updates received, in order
    settleRuns,          \* calls of resolve/reject of the prompt promise
    callerCancelled      \* the caller has decided to abandon the run

runnerVars == <<timeoutMs, noOutputTimeoutMs, clock, runPc, tempSessionId, tempCollector,
                tempResponse, settledFlag, cleanedUp, noOutputTimeout, overallTimeout,
                promptState, cancelling, cleanupPc, handler, runResult, cancelCount, signals,
                killed, exited, lastActivityAt, fired, arrived, settleRuns,
                callerCancelled>>

\* The stderr tail of runPromptWithTempAcp, src/unnamed/part_005.
VARIABLES
    stderrTailMaxChars,  \* the option (default 4000)
    tempStderrTail,      \* the retained tail
    stderrWritten        \* every character the subprocess wrote to stderr, in order

tailVars == <<stderrTailMaxChars, tempStderrTail, stderrWritten>>

\* handleScheduledJob, src/scheduler/scheduledJobHandler.ts.
VARIABLES
    schedule,            \* the ScheduleConfig that fired: type, metadata.chatId, description
    deps,                \* resolveTargetChatId's answer and which optional callbacks exist
    jobPc,               \* where handleScheduledJob is suspended, or how it ended
    agentResponse,       \* what runScheduledPromptWithTempAcp resolved with
    caughtError,         \* the error the catch block received
    sendCalls,           \* the calls of sendTextToChat, in order
    storeCalls           \* the calls of onConversationComplete / appendContextToAgent

jobVars == <<schedule, deps, jobPc, agentResponse, caughtError, sendCalls, storeCalls>>

\* SlackMessageContext.sendText, src/unnamed/part_001.
VARIABLES
    slackText,           \* the text handed to sendText
    maxMessageLength,    \* this.maxMessageLength
    slackPc,             \* "idle" before sendText is called, "posting", then "done"
    pendingChunks,       \* the chunks sendText has still to post
    postedChunks         \* the texts posted with chat.postMessage, in order

splitVars == <<slackText, maxMessageLength, slackPc, pendingChunks, postedChunks>>

\* runPromptWithCli, src/unnamed/part_006.
VARIABLES
    cliTimeoutMs,        \* options.timeoutMs
    cliClock,            \* milliseconds since the promise executor ran
    stdoutData,          \* stdoutData
    stderrData,          \* stderrData
    cliSettled,          \* settled
    cliTimer,            \* overallTimeout: "armed", "fired" or "cleared"
    cliKills,            \* the signals passed to tempProcess.kill, in order
    cliResult,           \* the promise runPromptWithCli returned
    cliSettleCalls,      \* calls of resolve and reject so far
    cliEvents            \* the timeout, 'error' and 'close' events so far, in order

cliVars == <<cliTimeoutMs, cliClock, stdoutData, stderrData, cliSettled, cliTimer, cliKills,
             cliResult, cliSettleCalls, cliEvents>>

\* The variables of the parts after the runner.
restVars == <<tailVars, jobVars, splitVars, cliVars>>

vars == <<queueVars, streamVars, runnerVars, restVars>>

RequestIds == 1..MaxMessages

\* Opaque message contexts handed to enqueueMessage.
Contexts == {"ctxA", "ctxB"}

\* Errors a processSingleMessage call can reject with.
Errors == {"errX", "errY"}

NoValue == "none"

IdleExecutor == [state |-> "notStarted", arg |-> NoValue, error |-> NoValue]

NoPromise == [state |-> "none", error |-> NoValue, settleCalls |-> 0, arrivedBusy |-> FALSE]

\* No runPromptWithTempAcp call is modelled beside the component.
NoRun ==
    /\ timeoutMs = 0 /\ noOutputTimeoutMs = 0 /\ clock = 0 /\ runPc = "none"
    /\ tempSessionId = "none" /\ tempCollector = FALSE /\ tempResponse = <<>>
    /\ settledFlag = FALSE /\ cleanedUp = FALSE /\ noOutputTimeout = 0
    /\ overallTimeout = 0 /\ promptState = "notSent" /\ cancelling = {}
    /\ cleanupPc = "notRun" /\ handler = "none" /\ runResult = "none" /\ cancelCount = 0
    /\ signals = <<>> /\ killed = FALSE /\ exited = FALSE /\ lastActivityAt = 0
    /\ fired = {} /\ arrived = <<>> /\ settleRuns = 0 /\ callerCancelled = FALSE

\* The stderr tail is not followed.
NoTail == stderrTailMaxChars = 0 /\ tempStderrTail = <<>> /\ stderrWritten = <<>>

\* No schedule fires.
NoSchedule ==
    /\ schedule = "none" /\ deps = "none" /\ jobPc = "none" /\ agentResponse = "none"
    /\ caughtError = "none" /\ sendCalls = <<>> /\ storeCalls = <<>>

\* No Slack message is sent.
NoSlack ==
    /\ slackText = <<>> /\ maxMessageLength = 0 /\ slackPc = "none" /\ pendingChunks = <<>>
    /\ postedChunks = <<>>

\* No prompt-mode process is run.
NoCli ==
    /\ cliTimeoutMs = 0 /\ cliClock = 0 /\ stdoutData = <<>> /\ stderrData = <<>>
    /\ cliSettled = FALSE /\ cliTimer = "none" /\ cliKills = <<>> /\ cliResult = "none"
    /\ cliSettleCalls = 0 /\ cliEvents = <<>>

\* None of the parts after the runner is modelled beside the component.
NoRest == NoTail /\ NoSchedule /\ NoSlack /\ NoCli

QueueInit ==
    /\ messageQueue = <<>>
    /\ isQueueProcessing = FALSE
    /\ messageSequence = 0
    /\ awaiting = {}
    /\ executor = [id \in RequestIds |-> IdleExecutor]
    /\ promise = [id \in RequestIds |-> NoPromise]

\* The serializer on its own: no turn is modelled beside it.
NoTurn ==
    /\ skipHybridMode = FALSE /\ requestText = NoValue /\ chatId = NoValue
    /\ maxResponseLength = 0 /\ response = <<>> /\ delivered = 0 /\ chunksSent = 0
    /\ now = 0 /\ liveMessageId = 0 /\ previewBuffer = <<>> /\ lastFlushAt = 0
    /\ lastChunkAt = 0 /\ finalizedViaLiveMessage = FALSE /\ startingLiveMessage = 0
    /\ promptCompleted = FALSE /\ modeDetected = FALSE /\ isAsyncMode = FALSE
    /\ prefixBuffer = <<>> /\ debounceDue = 0 /\ mainPc = NoValue /\ mainError = NoValue
    /\ mainWaits = 0 /\ tracked = <<>>
    /\ flushes = {} /\ chunkCalls = {} /\ nextHandle = 0 /\ job = NoValue
    /\ lastCall = NoValue /\ callCount = NoValue /\ finals = <<>> /\ modeTransitions = 0
    /\ typingStops = 0 /\ invocations = 0 /\ edits = <<>>

\* processQueue, line 19: the early return when a drain is already active.
AlreadyProcessingNever(flag) == FALSE

AlreadyProcessing(flag) == flag

\* processQueue, line 26: messageQueue.shift().
PopLast(q) == [item |-> q[Len(q)], rest |-> SubSeq(q, 1, Len(q) - 1)]

Shift(q) == [item |-> Head(q), rest |-> Tail(q)]

\* processQueue, lines 33 and 36: item.resolve() after a fulfilled executor,
\* item.reject(error) after a rejected one.
SettleAlwaysResolves(p, ex) ==
    [p EXCEPT !.state = IF p.state = "pending" THEN "fulfilled" ELSE p.state,
              !.settleCalls = p.settleCalls + 1]

SettleItem(p, ex) ==
    IF ex.state = "fulfilled"
    THEN [p EXCEPT !.state = IF p.state = "pending" THEN "fulfilled" ELSE p.state,
                   !.settleCalls = p.settleCalls + 1]
    ELSE [p EXCEPT !.state = IF p.state = "pending" THEN "rejected" ELSE p.state,
                   !.error = IF p.state = "pending" THEN ex.error ELSE p.error,
                   !.settleCalls = p.settleCalls + 1]

\* processQueue, line 40: isQueueProcessing after the while loop has ended.
FlagLeftSet == TRUE

FlagAfterDrain == FALSE

\* processQueue, lines 25-45, from the loop test to the next suspension:
\* either the next item is shifted and its executor started (the activation
\* then waits at line 32), or the loop ends and the flag is reset. The second
\* look at the queue (line 43) is made in the same run as the loop test that
\* found it empty, with no await between them, so it finds it empty too.
DrainLoop(q, flag, aw, ex) ==
    IF Len(q) > 0
    THEN LET s == Shift(q)
             id == s.item.requestId
         IN [queue |-> s.rest,
             flag |-> flag,
             awaiting |-> aw \cup {id},
             executor |-> [ex EXCEPT ![id] = [state |-> "running",
                                               arg |-> s.item.messageContext,
                                               error |-> NoValue]]]
    ELSE [queue |-> q, flag |-> FlagAfterDrain, awaiting |-> aw, executor |-> ex]

\* processQueue, lines 31-38: the inner try/catch absorbs the executor's
\* outcome, so after either one the while loop goes on to its next test.
AbandonAfterReject(outcome, q, flag, aw, ex) ==
    IF outcome = "fulfilled"
    THEN DrainLoop(q, flag, aw, ex)
    ELSE [queue |-> q, flag |-> FALSE, awaiting |-> aw, executor |-> ex]

AfterItem(outcome, q, flag, aw, ex) == DrainLoop(q, flag, aw, ex)

\* processQueue, lines 18-51, entered by a call: returns at once when a drain
\* is active, else sets the flag and runs the loop to its first suspension.
ProcessQueue(q, flag, aw, ex) ==
    IF AlreadyProcessing(flag)
    THEN [queue |-> q, flag |-> flag, awaiting |-> aw, executor |-> ex]
    ELSE DrainLoop(q, TRUE, aw, ex)

\* enqueueMessage, lines 53-68.
EnqueueMessage(ctx) ==
    /\ messageSequence < MaxMessages
    /\ LET requestId == messageSequence + 1
           pushed == Append(messageQueue, [requestId |-> requestId, messageContext |-> ctx])
           r == ProcessQueue(pushed, isQueueProcessing, awaiting, executor)
       IN /\ messageSequence' = requestId
          /\ promise' = [promise EXCEPT ![requestId] =
                            [state |-> "pending", error |-> NoValue, settleCalls |-> 0,
                             arrivedBusy |-> isQueueProcessing]]
          /\ messageQueue' = r.queue
          /\ isQueueProcessing' = r.flag
          /\ awaiting' = r.awaiting
          /\ executor' = r.executor
    /\ UNCHANGED <<streamVars, runnerVars, restVars>>

\* The caller-supplied processSingleMessage call of item id fulfils.
ExecutorFulfils(id) ==
    /\ executor[id].state = "running"
    /\ executor' = [executor EXCEPT ![id].state = "fulfilled"]
    /\ UNCHANGED <<messageQueue, isQueueProcessing, messageSequence, awaiting, promise>>
    /\ UNCHANGED <<streamVars, runnerVars, restVars>>

\* The caller-supplied processSingleMessage call of item id rejects with e.
ExecutorRejects(id, e) ==
    /\ executor[id].state = "running"
    /\ executor' = [executor EXCEPT ![id].state = "rejected", ![id].error = e]
    /\ UNCHANGED <<messageQueue, isQueueProcessing, messageSequence, awaiting, promise>>
    /\ UNCHANGED <<streamVars, runnerVars, restVars>>

\* processQueue resumed after `await processSingleMessage` of item id
\* (lines 32-38): settle the item's promise, then go round the loop.
DrainResume(id) ==
    /\ id \in awaiting
    /\ executor[id].state \in {"fulfilled", "rejected"}
    /\ promise' = [promise EXCEPT ![id] = SettleItem(promise[id], executor[id])]
    /\ LET r == AfterItem(executor[id].state, messageQueue, isQueueProcessing,
                          awaiting \ {id}, executor)
       IN /\ messageQueue' = r.queue
          /\ isQueueProcessing' = r.flag
          /\ awaiting' = r.awaiting
          /\ executor' = r.executor
    /\ UNCHANGED messageSequence
    /\ UNCHANGED <<streamVars, runnerVars, restVars>>

QueueNext ==
    \/ \E ctx \in Contexts : EnqueueMessage(ctx)
    \/ \E id \in RequestIds : ExecutorFulfils(id)
    \/ \E id \in RequestIds, e \in Errors : ExecutorRejects(id, e)
    \/ \E id \in RequestIds : DrainResume(id)

\* The serializer's state after module load, no turn beside it.
QueueStart == QueueInit /\ NoTurn /\ NoRun /\ NoRest

QueueSpec == QueueStart /\ [][QueueNext]_vars

\* Every started executor eventually settles (the claim's assumption), and a
\* suspended processQueue activation is resumed once its await has settled
\* (the microtask queue always runs).
QueueFairSpec ==
    /\ QueueSpec
    /\ \A id \in RequestIds :
          /\ WF_vars(ExecutorFulfils(id) \/ \E e \in Errors : ExecutorRejects(id, e))
          /\ WF_vars(DrainResume(id))

\* ---------------------------------------------------------- StreamClassifier
\* Part 2: src/messaging/liveMessageProcessor.ts, processSingleTelegramMessage.
\* Texts are sequences of characters (one-character strings; a generated job
\* reference and a fixed message are single elements).

\* JavaScript whitespace as matched by String.prototype.trim and by \s.
IsSpace(c) == c \in {" ", "\n"}

MarkerQuick == <<"[", "M", "O", "D", "E", ":", " ", "Q", "U", "I", "C", "K", "]">>

MarkerAsync == <<"[", "M", "O", "D", "E", ":", " ", "A", "S", "Y", "N", "C", "]">>

\* Whether p occurs in s at index i.
OccursAt(s, p, i) ==
    /\ i >= 1
    /\ i + Len(p) - 1 <= Len(s)
    /\ \A k \in 1..Len(p) : s[i + k - 1] = p[k]

\* String.prototype.startsWith.
StartsWith(s, p) == OccursAt(s, p, 1)

\* Index of the first occurrence of p in s, 0 when there is none.
IndexOf(s, p) ==
    IF \E i \in 1..Len(s) : OccursAt(s, p, i)
    THEN CHOOSE i \in 1..Len(s) : OccursAt(s, p, i) /\ \A j \in 1..(i - 1) : ~OccursAt(s, p, j)
    ELSE 0

Contains(s, p) == IndexOf(s, p) # 0

\* String.prototype.trim.
Trim(s) ==
    IF \A i \in 1..Len(s) : IsSpace(s[i])
    THEN <<>>
    ELSE LET first == CHOOSE i \in 1..Len(s) : ~IsSpace(s[i]) /\ \A j \in 1..(i - 1) : IsSpace(s[j])
             last == CHOOSE i \in 1..Len(s) : ~IsSpace(s[i]) /\ \A j \in (i + 1)..Len(s) : IsSpace(s[j])
         IN SubSeq(s, first, last)

\* prefixBuffer.replace(/\[MODE: QUICK\]\s*/, ''): the first occurrence of the
\* marker and the whitespace that follows it are removed (lines 212, 248).
KeepMarker(s) == s

StripQuickMarker(s) ==
    LET i == IndexOf(s, MarkerQuick)
    IN IF i = 0
       THEN s
       ELSE LET after == i + Len(MarkerQuick)
                stop == IF \A j \in after..Len(s) : IsSpace(s[j])
                        THEN Len(s) + 1
                        ELSE CHOOSE j \in after..Len(s) :
                                 ~IsSpace(s[j]) /\ \A k \in after..(j - 1) : IsSpace(s[k])
            IN SubSeq(s, 1, i - 1) \o SubSeq(s, stop, Len(s))

Ellipsis == "..."

\* str.slice(0, end): a negative end counts from the end of the string.
SliceTo(str, end) ==
    LET last == IF end < 0
                THEN (IF Len(str) + end < 0 THEN 0 ELSE Len(str) + end)
                ELSE (IF end > Len(str) THEN Len(str) ELSE end)
    IN SubSeq(str, 1, last)

\* previewText, lines 55-60.
PreviewText(buffer, maxLen) ==
    IF Len(buffer) <= maxLen
    THEN buffer
    ELSE SliceTo(buffer, maxLen - 1) \o <<Ellipsis>>

\* The placeholder sent for an empty response (lines 305, 324).
NoResponseReceived == <<"No response received.">>

\* The acknowledgment used when the agent's full response is blank (line 282).
DefaultAsyncMessage == <<"[MODE: ASYNC] I've scheduled this task. I'll notify you when it's done.">>

\* Parameters streamUpdateIntervalMs and messageGapThresholdMs, in clock ticks.
streamUpdateIntervalMs == 1

messageGapThresholdMs == 1

\* Date.now() when the turn starts: any positive number.
StartTime == 1

MaxTime == StartTime + MaxTicks

RespQuick == MarkerQuick \o <<" ", "H", "e", "l", "l", "o">>

RespAsync == MarkerAsync \o <<" ", "d", "o", "i", "n", "g", " ", "i", "t">>

RespPlain == <<"4", "2">>

RespLeading == <<"\n">> \o MarkerQuick \o <<"H", "i">>

\* The turns explored, as (response, skipHybridMode, maxResponseLength): in
\* hybrid mode the two marked responses of the prompt's protocol (the quick
\* one also with a limit shorter than its text), one with the marker after
\* leading whitespace, an unmarked one (also with a limit shorter than its
\* text) and an empty one; with skipHybridMode an unmarked response (also
\* with the limit 0 that the configuration's number parser yields for an
\* input that is not a number) and one that happens to begin with a marker.
Turns ==
    {<<RespQuick, FALSE, 40>>, <<RespQuick, FALSE, 3>>, <<RespAsync, FALSE, 40>>,
     <<RespLeading, FALSE, 40>>,
     <<RespPlain, FALSE, 40>>, <<RespPlain, FALSE, 1>>, <<<<>>, FALSE, 40>>,
     <<RespPlain, TRUE, 40>>, <<RespPlain, TRUE, 0>>, <<MarkerAsync, TRUE, 40>>}

\* Values of generateShortId() (src/utils/commandText.ts), as `job_<id>`.
JobRefs == {"job_5g7h2k9z", "job_a1b2c3d4"}

Ops == {"startLiveMessage", "updateLiveMessage", "finalizeLiveMessage", "sendText", "removeMessage"}

NoCall == [op |-> NoValue, handle |-> 0, text |-> <<>>, at |-> 0]

NoJob == [state |-> "none", text |-> NoValue, chatId |-> NoValue, jobRef |-> NoValue, calls |-> 0]

NoWait == [promise |-> 0, seq |-> 0]

OwnerNone == [kind |-> "debounce", id |-> 0]

OwnerMain == [kind |-> "main", id |-> 0]

OwnerChunk(id) == [kind |-> "chunk", id |-> id]

StreamInit ==
    /\ \E turn \in Turns :
          /\ response = turn[1]
          /\ skipHybridMode = turn[2]
          /\ maxResponseLength = turn[3]
    /\ requestText \in {"do the thing"}
    /\ chatId \in {"chat7"}
    /\ delivered = 0
    /\ chunksSent = 0
    /\ now = StartTime
    /\ liveMessageId = 0
    /\ previewBuffer = <<>>
    /\ lastFlushAt = StartTime
    /\ lastChunkAt = 0
    /\ finalizedViaLiveMessage = FALSE
    /\ startingLiveMessage = 0
    /\ promptCompleted = FALSE
    /\ modeDetected = skipHybridMode
    /\ isAsyncMode = FALSE
    /\ prefixBuffer = <<>>
    /\ debounceDue = 0
    /\ mainPc = "prompt"
    /\ mainWaits = NoWait
    /\ mainError = NoValue
    /\ flushes = {}
    /\ chunkCalls = {}
    /\ nextHandle = 1
    /\ job = NoJob
    /\ lastCall = NoCall
    /\ callCount = [op \in Ops |-> 0]
    /\ finals = <<>>
    /\ modeTransitions = 0
    /\ typingStops = 0
    /\ tracked = <<>>
    /\ invocations = 0
    /\ edits = <<>>

\* The serializer is idle beside the turn.
NoQueue ==
    /\ messageQueue = <<>>
    /\ isQueueProcessing = FALSE
    /\ messageSequence = 0
    /\ awaiting = {}
    /\ executor = [id \in RequestIds |-> IdleExecutor]
    /\ promise = [id \in RequestIds |-> NoPromise]

\* The turn's mutable state as one record, so that the code run between two
\* awaits can be written as a composition of its statements.
S == [liveMessageId |-> liveMessageId, previewBuffer |-> previewBuffer,
      lastFlushAt |-> lastFlushAt, lastChunkAt |-> lastChunkAt,
      finalizedViaLiveMessage |-> finalizedViaLiveMessage,
      startingLiveMessage |-> startingLiveMessage, promptCompleted |-> promptCompleted,
      modeDetected |-> modeDetected, isAsyncMode |-> isAsyncMode,
      prefixBuffer |-> prefixBuffer, debounceDue |-> debounceDue, mainPc |-> mainPc,
      mainWaits |-> mainWaits, mainError |-> mainError, flushes |-> flushes,
      chunkCalls |-> chunkCalls, nextHandle |-> nextHandle, job |-> job,
      lastCall |-> lastCall, callCount |-> callCount, finals |-> finals,
      modeTransitions |-> modeTransitions, typingStops |-> typingStops, tracked |-> tracked,
      invocations |-> invocations, edits |-> edits]

Commit(s) ==
    /\ liveMessageId' = s.liveMessageId
    /\ previewBuffer' = s.previewBuffer
    /\ lastFlushAt' = s.lastFlushAt
    /\ lastChunkAt' = s.lastChunkAt
    /\ finalizedViaLiveMessage' = s.finalizedViaLiveMessage
    /\ startingLiveMessage' = s.startingLiveMessage
    /\ promptCompleted' = s.promptCompleted
    /\ modeDetected' = s.modeDetected
    /\ isAsyncMode' = s.isAsyncMode
    /\ prefixBuffer' = s.prefixBuffer
    /\ debounceDue' = s.debounceDue
    /\ mainPc' = s.mainPc
    /\ mainWaits' = s.mainWaits
    /\ mainError' = s.mainError
    /\ flushes' = s.flushes
    /\ chunkCalls' = s.chunkCalls
    /\ nextHandle' = s.nextHandle
    /\ job' = s.job
    /\ lastCall' = s.lastCall
    /\ callCount' = s.callCount
    /\ finals' = s.finals
    /\ modeTransitions' = s.modeTransitions
    /\ typingStops' = s.typingStops
    /\ tracked' = s.tracked
    /\ invocations' = s.invocations
    /\ edits' = s.edits
    /\ UNCHANGED <<skipHybridMode, requestText, chatId, maxResponseLength, response>>
    /\ UNCHANGED <<queueVars, runnerVars, restVars>>

\* An id for a new activation: the smallest one no suspended activation has.
FreshId(s) ==
    LET used == {f.id : f \in s.flushes} \cup {c.id : c \in s.chunkCalls}
    IN CHOOSE i \in 1..(Cardinality(used) + 1) : i \notin used /\ \A j \in 1..(i - 1) : j \in used

Get(set, id) == CHOOSE r \in set : r.id = id

Without(set, id) == {r \in set : r.id # id}

\* A call on messageContext.
Call(s, op, handle, text) ==
    [s EXCEPT !.lastCall = [op |-> op, handle |-> handle, text |-> text, at |-> now],
              !.callCount[op] = @ + 1]

\* A call on messageContext that delivers a final text.
FinalCall(s, op, handle, text) ==
    [Call(s, op, handle, text) EXCEPT
        !.finals = Append(@, [op |-> op, handle |-> handle, text |-> text])]

\* Assignments to modeDetected and isAsyncMode (lines 208-209, 215-216,
\* 244-245, 250, 257-258).
SetMode(s, detected, async) ==
    [s EXCEPT !.modeDetected = detected,
              !.isAsyncMode = async,
              !.modeTransitions =
                  IF <<detected, async>> # <<s.modeDetected, s.isAsyncMode>> THEN @ + 1 ELSE @]

\* debouncedFlush(): lodash debounce, trailing edge only (lines 126-132):
\* every call re-arms the timer.
DebouncedFlush(s) == [s EXCEPT !.debounceDue = now + streamUpdateIntervalMs]

\* debouncedFlush.cancel().
DebounceCancel(s) == [s EXCEPT !.debounceDue = 0]

\* Lines 346-351: the end of the finally block.
Finish(s, err) ==
    [s EXCEPT !.typingStops = @ + 1,
              !.mainPc = IF err = NoValue THEN "done" ELSE "failed",
              !.mainError = err]

\* The finally block, lines 338-345.
Finally(s, err) ==
    LET s1 == DebounceCancel(s)
    IN IF s1.liveMessageId # 0 /\ ~s1.finalizedViaLiveMessage /\ ~s1.promptCompleted
       THEN [Call(s1, "removeMessage", s1.liveMessageId, <<>>) EXCEPT
                !.mainPc = "remove", !.mainError = err]
       ELSE Finish(s1, err)

\* Lines 327-337: conversation history, then the finally block.
MainComplete(s) ==
    Finally(IF s.previewBuffer # <<>>
            THEN [s EXCEPT !.tracked = Append(@, [userMessage |-> requestText,
                                                  botResponse |-> s.previewBuffer,
                                                  chatId |-> chatId])]
            ELSE s,
            NoValue)

AlwaysNoResponse(buffer) == NoResponseReceived

\* previewBuffer || 'No response received.'
OrNoResponse(buffer) == IF buffer = <<>> THEN NoResponseReceived ELSE buffer

\* Lines 316-325.
MainSend(s) ==
    IF ~s.finalizedViaLiveMessage
    THEN [FinalCall(s, "sendText", 0, OrNoResponse(s.previewBuffer)) EXCEPT !.mainPc = "send"]
    ELSE MainComplete(s)

\* Lines 302-314.
MainFinalize(s) ==
    IF s.liveMessageId # 0
    THEN [FinalCall(s, "finalizeLiveMessage", s.liveMessageId, OrNoResponse(s.previewBuffer))
             EXCEPT !.mainPc = "finalize"]
    ELSE MainSend(s)

\* Lines 296-300.
MainAfterFinalFlush(s) ==
    IF s.startingLiveMessage # 0
    THEN [s EXCEPT !.mainPc = "waitStarting",
                   !.mainWaits = [promise |-> s.startingLiveMessage, seq |-> s.invocations + 1],
                   !.invocations = @ + 1]
    ELSE MainFinalize(s)

\* The chunk callback after the gap test, lines 234-236.
ChunkTail(s, chunk, at) ==
    DebouncedFlush([s EXCEPT !.lastChunkAt = at, !.previewBuffer = @ \o chunk])

\* finalizeCurrentMessage after its flush, lines 148-150: the call of
\* finalizeLiveMessage with the handle and the preview text of that moment.
FinalizeAfterFlush(s, id) ==
    LET c == Get(s.chunkCalls, id)
        s1 == FinalCall(s, "finalizeLiveMessage", s.liveMessageId,
                        PreviewText(s.previewBuffer, maxResponseLength))
    IN [s1 EXCEPT !.chunkCalls = Without(@, id) \cup {[c EXCEPT !.pc = "finFinalize"]}]

\* The code that awaited a flushPreview call goes on.
ResumeOwner(s, owner) ==
    CASE owner.kind = "main" -> MainAfterFinalFlush(s)
      [] owner.kind = "chunk" -> FinalizeAfterFlush(s, owner.id)
      [] OTHER -> s

\* flushPreview from line 102 on: the edit of the live message with the
\* text the flush took at line 73 (shot: that text, the flush's turn among the
\* invocations and the length of the buffer it was taken from).
FlushUpdate(s, shot, owner) ==
    IF s.liveMessageId = 0
    THEN ResumeOwner(s, owner)
    ELSE [Call(s, "updateLiveMessage", s.liveMessageId, shot.text) EXCEPT
             !.edits = Append(@, [handle |-> s.liveMessageId, seq |-> shot.seq,
                                  snap |-> shot.snap]),
             !.flushes = @ \cup {[id |-> FreshId(s), pc |-> "update", shot |-> shot,
                                  owner |-> owner, waits |-> 0]}]

NothingToShowNever(text) == FALSE

\* The test of line 74: an empty preview text is not shown.
NothingToShow(text) == text = <<>>

\* flushPreview, lines 62-100, from its call to its first await (or return).
FlushPreview(s, force, allowStart, owner) ==
    IF s.finalizedViaLiveMessage \/ s.isAsyncMode \/ ~s.modeDetected
    THEN ResumeOwner(s, owner)
    ELSE IF ~force /\ now - s.lastFlushAt < streamUpdateIntervalMs
    THEN ResumeOwner(s, owner)
    ELSE LET s1 == [s EXCEPT !.lastFlushAt = now, !.invocations = @ + 1]
             text == PreviewText(s.previewBuffer, maxResponseLength)
             shot == [text |-> text, seq |-> s1.invocations, snap |-> Len(s.previewBuffer)]
         IN IF NothingToShow(text)
            THEN ResumeOwner(s1, owner)
            ELSE IF s1.liveMessageId # 0
            THEN FlushUpdate(s1, shot, owner)
            ELSE IF ~allowStart
            THEN ResumeOwner(s1, owner)
            ELSE IF s1.startingLiveMessage # 0
            THEN [s1 EXCEPT !.flushes = @ \cup {[id |-> FreshId(s1), pc |-> "waitStarting",
                                                  shot |-> shot, owner |-> owner,
                                                  waits |-> s1.startingLiveMessage]}]
            ELSE [Call(s1, "startLiveMessage", 0, text) EXCEPT
                     !.startingLiveMessage = FreshId(s1),
                     !.flushes = @ \cup {[id |-> FreshId(s1), pc |-> "ownStart", shot |-> shot,
                                          owner |-> owner, waits |-> FreshId(s1)]}]

\* finalizeCurrentMessage after line 143: lines 145-146.
FinalizeFlush(s, id) == FlushPreview(DebounceCancel(s), TRUE, FALSE, OwnerChunk(id))

\* finalizeCurrentMessage, lines 134-146, called by the chunk callback at
\* line 231; the callback's chunk and its `now` wait in chunkCalls. The await
\* of lines 139-143 is never taken: startingLiveMessage is cleared in the same
\* run that sets liveMessageId (StartLiveMessageSettles), so it is null
\* whenever the test of line 135 has passed (StartingOnlyWithoutHandle).
FinalizeCurrentMessage(s, chunk, at) ==
    IF s.liveMessageId = 0 \/ s.isAsyncMode \/ ~s.modeDetected
    THEN ChunkTail(s, chunk, at)
    ELSE LET id == FreshId(s)
             c == [id |-> id, chunk |-> chunk, at |-> at, pc |-> "finFlush"]
         IN FinalizeFlush([s EXCEPT !.chunkCalls = @ \cup {c}], id)

\* The guard of the prefix detection, lines 202 and 241.
UndecidedAlways(s) == TRUE

Undecided(s) == ~s.modeDetected

\* The chunk callback, lines 194-237, from its call to its first await.
OnChunk(s, chunk) ==
    IF s.modeDetected /\ s.isAsyncMode
    THEN s
    ELSE IF Undecided(s)
    THEN LET buffered == s.prefixBuffer \o chunk
             trimmedBuffer == Trim(buffered)
             s1 == [s EXCEPT !.prefixBuffer = buffered]
             s2 == IF StartsWith(trimmedBuffer, MarkerQuick)
                   THEN [SetMode(s1, TRUE, FALSE) EXCEPT
                            !.previewBuffer = @ \o StripQuickMarker(buffered)]
                   ELSE IF StartsWith(trimmedBuffer, MarkerAsync)
                   THEN SetMode(s1, TRUE, TRUE)
                   ELSE s1
         IN IF s2.modeDetected /\ ~s2.isAsyncMode THEN DebouncedFlush(s2) ELSE s2
    ELSE LET gapSinceLastChunk == IF s.lastChunkAt > 0 THEN now - s.lastChunkAt ELSE 0
         IN IF /\ gapSinceLastChunk > messageGapThresholdMs
               /\ s.liveMessageId # 0
               /\ Trim(s.previewBuffer) # <<>>
            THEN FinalizeCurrentMessage(s, chunk, now)
            ELSE ChunkTail(s, chunk, now)

\* The end-of-prompt detection, lines 241-261.
DetectAtEnd(s) ==
    IF ~Undecided(s)
    THEN s
    ELSE LET trimmedBuffer == Trim(s.prefixBuffer)
         IN IF StartsWith(trimmedBuffer, MarkerAsync)
            THEN SetMode(s, TRUE, TRUE)
            ELSE IF StartsWith(trimmedBuffer, MarkerQuick)
            THEN [SetMode(s, TRUE, s.isAsyncMode) EXCEPT
                     !.previewBuffer = StripQuickMarker(s.prefixBuffer)]
            ELSE [SetMode(s, TRUE, FALSE) EXCEPT !.previewBuffer = s.prefixBuffer]

AckTextNoRef(fullResponse, jobRef) ==
    IF Trim(fullResponse) = <<>> THEN DefaultAsyncMessage ELSE Trim(fullResponse)

\* The acknowledgment text, lines 280-286.
AckText(fullResponse, jobRef) ==
    (IF Trim(fullResponse) = <<>> THEN DefaultAsyncMessage ELSE Trim(fullResponse))
        \o <<"\n", "\n", "Reference: ", jobRef>>

\* The async branch, lines 263-290, up to `await messageContext.sendText`.
\* scheduleAsyncJob is called and not awaited; its rejection is taken by the
\* .catch handler of line 271.
MainAsync(s, fullResponse, jobRef) ==
    LET s1 == [s EXCEPT !.job = [state |-> "pending", text |-> requestText,
                                 chatId |-> chatId, jobRef |-> jobRef,
                                 calls |-> s.job.calls + 1]]
    IN [Call(s1, "sendText", 0, AckText(fullResponse, jobRef)) EXCEPT !.mainPc = "ack"]

\* Lines 238-294: the body resumed with the prompt's result.
MainAfterPrompt(s, fullResponse, jobRef) ==
    LET s1 == DetectAtEnd([s EXCEPT !.promptCompleted = TRUE])
    IN IF s1.isAsyncMode
       THEN MainAsync(s1, fullResponse, jobRef)
       ELSE FlushPreview(DebounceCancel([s1 EXCEPT !.mainPc = "finalFlush"]), TRUE, TRUE, OwnerMain)

\* Where the agent's stream is cut into chunks: after the third character
\* ("[MO"; before the last character of a shorter response), after a marker's
\* closing bracket, and two characters before the end ("...Hel", "lo").
CutPoints(r) ==
    {i \in 1..(Len(r) - 1) :
        \/ i = (IF Len(r) > 3 THEN 3 ELSE Len(r) - 1)
        \/ i = Len(r) - 2
        \/ r[i] = "]"}

\* runAcpPrompt passes the next n characters of the response to the chunk
\* callback (line 194). The callback is not awaited by its caller.
Chunk(n) ==
    /\ mainPc = "prompt"
    /\ chunksSent < MaxChunks
    /\ n \in 1..(Len(response) - delivered)
    /\ delivered + n \in CutPoints(response) \cup {Len(response)}
    /\ (chunksSent = MaxChunks - 1) => (n = Len(response) - delivered)
    /\ Commit(OnChunk(S, SubSeq(response, delivered + 1, delivered + n)))
    /\ delivered' = delivered + n
    /\ chunksSent' = chunksSent + 1
    /\ UNCHANGED now

\* runAcpPrompt resolves with the full response once every chunk has been
\* passed on; the body of processSingleTelegramMessage goes on from line 238.
PromptResolves(jobRef) ==
    /\ mainPc = "prompt"
    /\ delivered = Len(response)
    /\ Commit(MainAfterPrompt(S, response, jobRef))
    /\ UNCHANGED <<delivered, chunksSent, now>>

\* runAcpPrompt rejects (timeout, protocol or process error): the body goes
\* to its finally block with promptCompleted still false.
PromptRejects ==
    /\ mainPc = "prompt"
    /\ Commit(Finally(S, "prompt failed"))
    /\ UNCHANGED <<delivered, chunksSent, now>>

\* Date.now() is read by the chunk callback and by flushPreview, and the
\* debounce timer runs on it: the clock is followed while chunks can still
\* arrive or a timer is armed.
ClockObserved == mainPc = "prompt" \/ debounceDue # 0

\* Time passes; a due timer fires before time passes it by.
Tick ==
    /\ ClockObserved
    /\ now < MaxTime
    /\ debounceDue = 0 \/ now < debounceDue
    /\ now' = now + 1
    /\ UNCHANGED <<delivered, chunksSent>>
    /\ Commit(S)

\* The timer of debouncedFlush fires: flushPreview(true), awaited by nobody.
DebounceFires ==
    /\ debounceDue # 0
    /\ now >= debounceDue
    /\ Commit(FlushPreview(DebounceCancel(S), TRUE, TRUE, OwnerNone))
    /\ UNCHANGED <<delivered, chunksSent, now>>

\* The body resumed after `await startingLiveMessage` (line 298).
MainWaiterResumes(s) == MainFinalize(s)

\* A flushPreview that awaited another flush's startingLiveMessage (line 84)
\* goes on to line 102 with the text it took when it was called.
FlushWaiterResumes(s, f) == FlushUpdate([s EXCEPT !.flushes = Without(@, f.id)], f.shot, f.owner)

LastAwaiter(ws) == CHOOSE f \in ws : \A g \in ws : f.shot.seq >= g.shot.seq

\* The flush whose `await startingLiveMessage` (line 84) was made first.
FirstAwaiter(ws) == CHOOSE f \in ws : \A g \in ws : f.shot.seq <= g.shot.seq

\* Everything that awaits the startingLiveMessage promise `id` goes on, in
\* the order the awaits were made: the promise's reactions are queued
\* together when it settles and run one after the other before any timer or
\* I/O callback.
RECURSIVE WakeWaiters(_, _)
WakeWaiters(s, id) ==
    LET ws == {f \in s.flushes : f.pc = "waitStarting" /\ f.waits = id}
    IN IF /\ s.mainPc = "waitStarting"
          /\ s.mainWaits.promise = id
          /\ \A f \in ws : s.mainWaits.seq < f.shot.seq
       THEN WakeWaiters(MainWaiterResumes(s), id)
       ELSE IF ws = {}
       THEN s
       ELSE WakeWaiters(FlushWaiterResumes(s, FirstAwaiter(ws)), id)

\* messageContext.startLiveMessage settles (lines 86-98): the promise sets
\* liveMessageId to the new handle, or to undefined on rejection; the flush
\* that made it, its first awaiter, clears startingLiveMessage and goes on to
\* line 102; the other awaiters follow.
StartLiveMessageSettles(f, ok) ==
    /\ f \in flushes
    /\ f.pc = "ownStart"
    /\ LET s1 == [S EXCEPT !.liveMessageId = IF ok THEN nextHandle ELSE 0,
                           !.nextHandle = IF ok THEN @ + 1 ELSE @,
                           !.startingLiveMessage = 0,
                           !.flushes = Without(@, f.id)]
       IN Commit(WakeWaiters(FlushUpdate(s1, f.shot, f.owner), f.id))
    /\ UNCHANGED <<delivered, chunksSent, now>>

\* messageContext.updateLiveMessage settles (lines 106-122): a rejection is
\* logged and swallowed, so either outcome ends the flush the same way.
UpdateLiveMessageSettles(f) ==
    /\ f \in flushes
    /\ f.pc = "update"
    /\ Commit(ResumeOwner([S EXCEPT !.flushes = Without(@, f.id)], f.owner))
    /\ UNCHANGED <<delivered, chunksSent, now>>

\* finalizeLiveMessage called by finalizeCurrentMessage settles (lines
\* 150-167; a rejection is logged): the live message state is reset and the
\* chunk callback goes on with lines 234-236.
GapFinalizeSettles(c) ==
    /\ c \in chunkCalls
    /\ c.pc = "finFinalize"
    /\ Commit(ChunkTail([S EXCEPT !.liveMessageId = 0,
                                  !.previewBuffer = <<>>,
                                  !.lastFlushAt = now,
                                  !.startingLiveMessage = 0,
                                  !.chunkCalls = Without(@, c.id)],
                        c.chunk, c.at))
    /\ UNCHANGED <<delivered, chunksSent, now>>

\* finalizeLiveMessage called at line 305 settles: fulfilled or rejected,
\* finalizedViaLiveMessage is set (lines 306, 308).
FinalizeSettles ==
    /\ mainPc = "finalize"
    /\ Commit(MainSend([S EXCEPT !.finalizedViaLiveMessage = TRUE]))
    /\ UNCHANGED <<delivered, chunksSent, now>>

\* messageContext.sendText settles: the acknowledgment of line 288 (then
\* `return`) or the final text of line 324; its rejection leaves the try
\* block for the finally block.
SendTextSettles(ok) ==
    /\ mainPc \in {"ack", "send"}
    /\ Commit(IF ~ok THEN Finally(S, "sendText failed")
              ELSE IF mainPc = "ack" THEN Finally(S, NoValue)
              ELSE MainComplete(S))
    /\ UNCHANGED <<delivered, chunksSent, now>>

\* messageContext.removeMessage settles (lines 341-343; a rejection is
\* swallowed).
RemoveMessageSettles ==
    /\ mainPc = "remove"
    /\ Commit(Finish(S, mainError))
    /\ UNCHANGED <<delivered, chunksSent, now>>

\* The .catch handler of line 271: the rejection is logged, nothing else.
JobRejectionUnhandled(s) == [s EXCEPT !.mainPc = "failed", !.mainError = "schedule failed"]

JobRejectionCaught(s) == s

\* The promise scheduleAsyncJob returned settles.
ScheduleAsyncJobSettles(ok) ==
    /\ job.state = "pending"
    /\ LET s1 == [S EXCEPT !.job.state = IF ok THEN "fulfilled" ELSE "rejected"]
       IN Commit(IF ok THEN s1 ELSE JobRejectionCaught(s1))
    /\ UNCHANGED <<delivered, chunksSent, now>>

StreamNext ==
    \/ \E n \in 1..Len(response) : Chunk(n)
    \/ \E jobRef \in JobRefs : PromptResolves(jobRef)
    \/ PromptRejects
    \/ Tick
    \/ DebounceFires
    \/ \E f \in flushes, ok \in BOOLEAN : StartLiveMessageSettles(f, ok)
    \/ \E f \in flushes : UpdateLiveMessageSettles(f)
    \/ \E c \in chunkCalls : GapFinalizeSettles(c)
    \/ FinalizeSettles
    \/ \E ok \in BOOLEAN : SendTextSettles(ok)
    \/ RemoveMessageSettles
    \/ \E ok \in BOOLEAN : ScheduleAsyncJobSettles(ok)

\* The state when processSingleTelegramMessage is entered, the serializer
\* idle beside it.
StreamStart == StreamInit /\ NoQueue /\ NoRun /\ NoRest

StreamSpec == StreamStart /\ [][StreamNext]_vars

\* ----------------------------------------------------------- ProcessSession
\* runPromptWithTempAcp (src/unnamed/part_005): one subprocess, the protocol
\* handshake, the prompt with its two timers, and teardown.

\* The runs explored, as (timeoutMs, noOutputTimeoutMs).
RunOptions == {<<3, 2>>, <<2, 1>>, <<2, 0>>}

\* The session newSession returns, and another session of the same agent.
OwnSession == "sess-1"

SessionIds == {OwnSession, "sess-2"}

\* The text of the agent's n-th message chunk.
ChunkText(n) == <<<<"a">>, <<"b">>, <<"c">>, <<"d">>>>[n]

\* params.update.sessionUpdate: a text chunk, or another kind of update.
UpdateKinds == {"agent_message_chunk", "tool_call"}

\* result.stopReason of the prompt, or "error" for a rejected prompt.
PromptResults == {"end_turn", "cancelled", "error"}

IdleError == "Scheduler Gemini ACP produced no output"

OverallError == "Scheduler Gemini ACP timed out"

CancelledError == "Scheduler Gemini ACP prompt was cancelled"

PromptError == "Scheduler Gemini ACP prompt failed"

HandshakeError == "handshake failed"

NoHandler == [kind |-> NoValue, error |-> NoValue]

NoResult == [state |-> "pending", value |-> <<>>, error |-> NoValue]

RunnerInit ==
    /\ \E o \in RunOptions : timeoutMs = o[1] /\ noOutputTimeoutMs = o[2]
    /\ clock = 0
    /\ runPc = "initialize"
    /\ tempSessionId = NoValue
    /\ tempCollector = FALSE
    /\ tempResponse = <<>>
    /\ settledFlag = FALSE
    /\ cleanedUp = FALSE
    /\ noOutputTimeout = 0
    /\ overallTimeout = 0
    /\ promptState = "notSent"
    /\ cancelling = {}
    /\ cleanupPc = "notRun"
    /\ handler = NoHandler
    /\ runResult = NoResult
    /\ cancelCount = 0
    /\ signals = <<>>
    /\ killed = FALSE
    /\ exited = FALSE
    /\ lastActivityAt = 0
    /\ fired = {}
    /\ arrived = <<>>
    /\ settleRuns = 0
    /\ callerCancelled = FALSE

\* The run's mutable state as one record.
R == [runPc |-> runPc, tempSessionId |-> tempSessionId, tempCollector |-> tempCollector,
      tempResponse |-> tempResponse, settledFlag |-> settledFlag, cleanedUp |-> cleanedUp,
      noOutputTimeout |-> noOutputTimeout, overallTimeout |-> overallTimeout,
      promptState |-> promptState, cancelling |-> cancelling, cleanupPc |-> cleanupPc,
      handler |-> handler, runResult |-> runResult, cancelCount |-> cancelCount,
      signals |-> signals, killed |-> killed, exited |-> exited,
      lastActivityAt |-> lastActivityAt, fired |-> fired, arrived |-> arrived,
      settleRuns |-> settleRuns, callerCancelled |-> callerCancelled]

RunCommit(r) ==
    /\ runPc' = r.runPc
    /\ tempSessionId' = r.tempSessionId
    /\ tempCollector' = r.tempCollector
    /\ tempResponse' = r.tempResponse
    /\ settledFlag' = r.settledFlag
    /\ cleanedUp' = r.cleanedUp
    /\ noOutputTimeout' = r.noOutputTimeout
    /\ overallTimeout' = r.overallTimeout
    /\ promptState' = r.promptState
    /\ cancelling' = r.cancelling
    /\ cleanupPc' = r.cleanupPc
    /\ handler' = r.handler
    /\ runResult' = r.runResult
    /\ cancelCount' = r.cancelCount
    /\ signals' = r.signals
    /\ killed' = r.killed
    /\ exited' = r.exited
    /\ lastActivityAt' = r.lastActivityAt
    /\ fired' = r.fired
    /\ arrived' = r.arrived
    /\ settleRuns' = r.settleRuns
    /\ callerCancelled' = r.callerCancelled
    /\ UNCHANGED <<timeoutMs, noOutputTimeoutMs>>
    /\ UNCHANGED <<queueVars, streamVars, restVars>>

KeepNoOutputTimer(r) ==
    IF noOutputTimeoutMs <= 0 \/ r.noOutputTimeout # 0
    THEN r
    ELSE [r EXCEPT !.noOutputTimeout = clock + noOutputTimeoutMs]

\* refreshNoOutputTimer, lines 409-425: the idle timer is cleared and armed
\* anew, unless noOutputTimeoutMs disables it.
RefreshNoOutputTimer(r) ==
    IF noOutputTimeoutMs <= 0
    THEN r
    ELSE [r EXCEPT !.noOutputTimeout = clock + noOutputTimeoutMs]

\* clearTimers, lines 282-291.
ClearTimers(r) == [r EXCEPT !.noOutputTimeout = 0, !.overallTimeout = 0]

\* `if (tempConnection && tempSessionId) await tempConnection.cancel(...)`
\* up to the await (lines 301, 418, 429); tempConnection is set by then.
IssueCancel(r) ==
    IF r.tempSessionId # NoValue THEN [r EXCEPT !.cancelCount = @ + 1] ELSE r

\* response || 'No response received.' (line 481).
ResolveValue(resp) == IF resp = <<>> THEN NoResponseReceived ELSE resp

\* The code that awaited cleanup() goes on: settle's handler resolves or
\* rejects the prompt promise (line 406) and the function leaves through its
\* finally block, whose cleanup() returns at once (line 294); or the finally
\* block itself (lines 494-496) lets the handshake error through.
CleanupReturns(r) ==
    LET h == r.handler
        result == IF h.kind = "resolve"
                  THEN [state |-> "resolved", value |-> ResolveValue(r.tempResponse),
                        error |-> NoValue]
                  ELSE [state |-> "rejected", value |-> <<>>, error |-> h.error]
    IN [r EXCEPT !.runResult = IF @.state = "pending" THEN result ELSE @,
                 !.settleRuns = IF h.kind = "rethrow" THEN @ ELSE @ + 1,
                 !.runPc = "returned"]

\* cleanup after its cancel, lines 306-308, and terminateProcessGracefully
\* up to its wait for the exit event or the grace timer (lines 224-253).
Terminate(r) ==
    IF ~r.killed /\ ~r.exited
    THEN [r EXCEPT !.signals = Append(@, "SIGTERM"), !.killed = TRUE, !.cleanupPc = "terminate"]
    ELSE CleanupReturns([r EXCEPT !.cleanupPc = "done"])

\* cleanup, lines 293-304, up to its first await.
Cleanup(r) ==
    IF r.cleanedUp
    THEN CleanupReturns(r)
    ELSE LET r1 == ClearTimers([r EXCEPT !.cleanedUp = TRUE])
         IN IF r1.tempSessionId # NoValue
            THEN [IssueCancel(r1) EXCEPT !.cleanupPc = "cancel"]
            ELSE Terminate(r1)

NeverSettled(r) == FALSE

\* The guard of settle, line 401.
AlreadySettled(r) == r.settledFlag

SettleBeforeCleanup(r, h) ==
    IF AlreadySettled(r)
    THEN r
    ELSE Cleanup([r EXCEPT !.settledFlag = TRUE, !.handler = h,
                           !.runResult = [state |-> IF h.kind = "resolve"
                                                    THEN "resolved" ELSE "rejected",
                                          value |-> IF h.kind = "resolve"
                                                    THEN ResolveValue(r.tempResponse)
                                                    ELSE <<>>,
                                          error |-> h.error]])

\* settle, lines 400-407, up to `await cleanup()`.
Settle(r, h) ==
    IF AlreadySettled(r)
    THEN r
    ELSE Cleanup([r EXCEPT !.settledFlag = TRUE, !.handler = h])

\* The catch and finally blocks after a failed handshake, lines 487-496.
HandshakeFails(r) ==
    Cleanup([r EXCEPT !.runPc = "cleanup",
                      !.handler = [kind |-> "rethrow", error |-> HandshakeError]])

AnyUpdate(r, sessionId) == r.tempCollector

\* The guard of sessionUpdate, line 354.
OwnUpdate(r, sessionId) == r.tempCollector /\ sessionId = r.tempSessionId

\* tempConnection.initialize settles (line 374).
InitializeSettles(ok) ==
    /\ runPc = "initialize"
    /\ RunCommit(IF ok THEN [R EXCEPT !.runPc = "newSession"] ELSE HandshakeFails(R))
    /\ UNCHANGED clock

\* tempConnection.newSession settles (line 379); on success the executor of
\* the prompt promise runs (lines 391-462): the overall timer and the idle
\* timer are armed, the collector is set and the prompt is sent.
NewSessionSettles(ok) ==
    /\ runPc = "newSession"
    /\ RunCommit(IF ok
                 THEN RefreshNoOutputTimer(
                          [R EXCEPT !.tempSessionId = OwnSession,
                                    !.lastActivityAt = clock,
                                    !.overallTimeout = clock + timeoutMs,
                                    !.tempCollector = TRUE,
                                    !.promptState = "pending",
                                    !.runPc = "prompt"])
                 ELSE HandshakeFails(R))
    /\ UNCHANGED clock

\* tempClient.sessionUpdate, lines 352-363, with tempCollector.append
\* (lines 439-455); the message chunks received are recorded in `arrived`.
\* Updates of the run's own session follow the answer to newSession.
SessionUpdate(sessionId, kind) ==
    /\ ~exited
    /\ runPc # "initialize"
    /\ sessionId = OwnSession => tempSessionId = OwnSession
    /\ kind = "agent_message_chunk" => Len(arrived) < MaxChunks
    /\ LET text == ChunkText(Len(arrived) + 1)
           r1 == IF kind = "agent_message_chunk"
                 THEN [R EXCEPT !.arrived = Append(@, [sessionId |-> sessionId, text |-> text])]
                 ELSE R
           r2 == IF sessionId = OwnSession THEN [r1 EXCEPT !.lastActivityAt = clock] ELSE r1
       IN RunCommit(IF ~OwnUpdate(r2, sessionId)
                    THEN r2
                    ELSE IF kind = "agent_message_chunk"
                    THEN [RefreshNoOutputTimer(r2) EXCEPT !.tempResponse = @ \o text]
                    ELSE RefreshNoOutputTimer(r2))
    /\ UNCHANGED clock

\* tempProcess.stderr.on('data'), lines 316-324: tempCollector?.onActivity().
StderrData ==
    /\ ~exited
    /\ RunCommit(IF tempCollector
                 THEN RefreshNoOutputTimer([R EXCEPT !.lastActivityAt = clock])
                 ELSE R)
    /\ UNCHANGED clock

\* tempConnection.prompt settles: the .then and .catch handlers, lines
\* 464-485.
PromptSettles(result) ==
    /\ promptState = "pending"
    /\ LET r1 == [R EXCEPT !.promptState = "answered"]
       IN RunCommit(
            IF result = "error"
            THEN Settle(r1, [kind |-> "reject", error |-> PromptError])
            ELSE IF result = "cancelled" /\ r1.tempResponse = <<>>
            THEN Settle(r1, [kind |-> "reject", error |-> CancelledError])
            ELSE Settle(r1, [kind |-> "resolve", error |-> NoValue]))
    /\ UNCHANGED clock

\* The idle timer fires (lines 416-424), up to `await tempConnection.cancel`.
NoOutputTimeoutFires ==
    /\ noOutputTimeout # 0
    /\ clock >= noOutputTimeout
    /\ RunCommit([IssueCancel(R) EXCEPT !.noOutputTimeout = 0,
                                        !.fired = @ \cup {"idle"},
                                        !.cancelling = @ \cup {"idle"}])
    /\ UNCHANGED clock

\* The overall timer fires (lines 427-435), up to `await tempConnection.cancel`.
OverallTimeoutFires ==
    /\ overallTimeout # 0
    /\ clock >= overallTimeout
    /\ RunCommit([IssueCancel(R) EXCEPT !.overallTimeout = 0,
                                        !.fired = @ \cup {"overall"},
                                        !.cancelling = @ \cup {"overall"}])
    /\ UNCHANGED clock

\* The cancel a timer callback awaits settles (fulfilled or rejected, the
\* error is swallowed): settle(() => reject(...)), lines 423 and 434.
TimerCancelSettles(k) ==
    /\ k \in cancelling
    /\ RunCommit(Settle([R EXCEPT !.cancelling = @ \ {k}],
                         [kind |-> "reject",
                          error |-> IF k = "idle" THEN IdleError ELSE OverallError]))
    /\ UNCHANGED clock

\* The cancel cleanup awaits settles (lines 300-304).
CleanupCancelSettles ==
    /\ cleanupPc = "cancel"
    /\ RunCommit(Terminate(R))
    /\ UNCHANGED clock

\* The subprocess exits; terminateProcessGracefully, if waiting, is
\* finalized by its exit listener (line 247).
ProcessExits ==
    /\ ~exited
    /\ LET r1 == [R EXCEPT !.exited = TRUE]
       IN RunCommit(IF cleanupPc = "terminate"
                    THEN CleanupReturns([r1 EXCEPT !.cleanupPc = "done"])
                    ELSE r1)
    /\ UNCHANGED clock

\* The grace timer of terminateProcessGracefully fires first (lines 256-271).
GraceElapses ==
    /\ cleanupPc = "terminate"
    /\ RunCommit(CleanupReturns(
            IF killed \/ exited
            THEN [R EXCEPT !.cleanupPc = "done"]
            ELSE [R EXCEPT !.signals = Append(@, "SIGKILL"), !.cleanupPc = "done"]))
    /\ UNCHANGED clock

\* The caller decides to abandon the run while the prompt is in progress
\* (a superseding request, say). runPromptWithTempAcp takes its options
\* and returns a bare Promise<string> (lines 26-38): it accepts no abort
\* signal and returns no handle, and settle and cleanup are local to the
\* call, so the decision reaches nothing in the run.
CallerCancels ==
    /\ runPc = "prompt"
    /\ ~settledFlag
    /\ ~callerCancelled
    /\ RunCommit([R EXCEPT !.callerCancelled = TRUE])
    /\ UNCHANGED clock

\* Time passes while the caller waits or a timer is armed; a due timer
\* fires before time passes it by.
RunTick ==
    /\ runPc # "returned" \/ noOutputTimeout # 0 \/ overallTimeout # 0
    /\ clock < MaxTicks
    /\ noOutputTimeout = 0 \/ clock < noOutputTimeout
    /\ overallTimeout = 0 \/ clock < overallTimeout
    /\ clock' = clock + 1
    /\ RunCommit(R)

RunnerNext ==
    \/ \E ok \in BOOLEAN : InitializeSettles(ok)
    \/ \E ok \in BOOLEAN : NewSessionSettles(ok)
    \/ \E sessionId \in SessionIds, kind \in UpdateKinds : SessionUpdate(sessionId, kind)
    \/ StderrData
    \/ \E result \in PromptResults : PromptSettles(result)
    \/ NoOutputTimeoutFires
    \/ OverallTimeoutFires
    \/ \E k \in {"idle", "overall"} : TimerCancelSettles(k)
    \/ CleanupCancelSettles
    \/ ProcessExits
    \/ GraceElapses
    \/ CallerCancels
    \/ RunTick

\* runPromptWithTempAcp has been invoked; the other components are idle.
RunnerStart == RunnerInit /\ QueueInit /\ NoTurn /\ NoRest

RunnerSpec == RunnerStart /\ [][RunnerNext]_vars

\* ------------------------------------------------------------ stderr tail
\* src/unnamed/part_005, appendTempStderrTail (lines 275-280), called by the
\* stderr 'data' handler (line 318) with each piece of output.

\* Longest stderr output followed.
MaxWritten == 4

\* The values of stderrTailMaxChars explored (line 36: 4000 by default).
TailBounds == 0..3

\* The pieces of stderr output, as sequences of characters.
StderrTexts == {<<"x">>, <<"y">>, <<"x", "y">>, <<"y", "x", "y">>}

\* String.prototype.slice(start) of JavaScript: a negative start counts
\* from the end, and -0 is 0.
Slice(str, start) ==
    LET len == Len(str)
        from == IF start < 0
                THEN (IF len + start > 0 THEN len + start ELSE 0)
                ELSE (IF start < len THEN start ELSE len)
    IN SubSeq(str, from + 1, len)

\* appendTempStderrTail, lines 275-280.
AppendTempStderrTail(tail, text, maxChars) ==
    LET joined == tail \o text
    IN IF Len(joined) > maxChars THEN Slice(joined, 0 - maxChars) ELSE joined

TailInit ==
    /\ stderrTailMaxChars \in TailBounds
    /\ tempStderrTail = <<>>
    /\ stderrWritten = <<>>

\* The stderr 'data' handler, line 318.
StderrWrite(text) ==
    /\ Len(stderrWritten) + Len(text) <= MaxWritten
    /\ tempStderrTail' = AppendTempStderrTail(tempStderrTail, text, stderrTailMaxChars)
    /\ stderrWritten' = stderrWritten \o text
    /\ UNCHANGED <<stderrTailMaxChars, queueVars, streamVars, runnerVars, jobVars, splitVars,
                   cliVars>>

TailNext == \E text \in StderrTexts : StderrWrite(text)

TailStart == TailInit /\ QueueInit /\ NoTurn /\ NoRun /\ NoSchedule /\ NoSlack /\ NoCli

TailSpec == TailStart /\ [][TailNext]_vars

\* ---------------------------------------------------------------- JobRunner
\* src/scheduler/scheduledJobHandler.ts, handleScheduledJob (lines 28-99).
\* One action is one resumption of the function: from the settlement of
\* the promise it awaits to its next await or its end.

ScheduleMessage == "msg"

\* The schedules that fire: schedule.type, schedule.metadata?.chatId
\* (NoValue when absent), schedule.description ("" when absent or empty).
Schedules ==
    [type : {"async_conversation", "cron"},
     chatId : {NoValue, "chatM"},
     description : {"", "desc"}]

\* The dependencies: what resolveTargetChatId() returns (NoValue for null)
\* and whether the optional callbacks were supplied.
Deps ==
    [targetChatId : {NoValue, "chatT"},
     onConversationComplete : BOOLEAN,
     appendContextToAgent : BOOLEAN]

BuildError == "buildPromptWithMemory failed"

AgentError == "runScheduledPromptWithTempAcp failed"

SendError == "sendTextToChat failed"

CallbackError == "onConversationComplete threw"

AgentText == "result"

\* schedule.description || schedule.message, lines 88 and 94.
DescriptionOrMessage(sch) ==
    IF sch.description # "" THEN sch.description ELSE ScheduleMessage

\* The text of the result message, lines 56 and 72.
ResultText(sch, resp) ==
    IF sch.type = "async_conversation"
    THEN <<"Background task completed.", ScheduleMessage, resp>>
    ELSE <<resp>>

\* The text of the error notification, lines 88 and 94.
ErrorText(sch, err) ==
    IF sch.type = "async_conversation"
    THEN <<"Background task failed", DescriptionOrMessage(sch), err>>
    ELSE <<"Scheduled task failed", DescriptionOrMessage(sch), err>>

AlwaysTarget(sch, d) == d.targetChatId

FallBackToTarget(sch, d) ==
    IF sch.type = "async_conversation" /\ sch.chatId # NoValue THEN sch.chatId
    ELSE d.targetChatId

\* The chat a message of this schedule goes to, NoValue for none: lines
\* 47-54 and 70-71, and again lines 85-87 and 92-93.
Destination(sch, d) ==
    IF sch.type = "async_conversation" THEN sch.chatId ELSE d.targetChatId

JobInit ==
    /\ schedule \in Schedules
    /\ deps \in Deps
    /\ jobPc = "build"
    /\ agentResponse = NoValue
    /\ caughtError = NoValue
    /\ sendCalls = <<>>
    /\ storeCalls = <<>>

J == [jobPc |-> jobPc, agentResponse |-> agentResponse, caughtError |-> caughtError,
      sendCalls |-> sendCalls, storeCalls |-> storeCalls]

JobCommit(j) ==
    /\ jobPc' = j.jobPc
    /\ agentResponse' = j.agentResponse
    /\ caughtError' = j.caughtError
    /\ sendCalls' = j.sendCalls
    /\ storeCalls' = j.storeCalls
    /\ UNCHANGED <<schedule, deps>>
    /\ UNCHANGED <<queueVars, streamVars, runnerVars, tailVars, splitVars, cliVars>>

\* sendTextToChat(chatId, normalizeOutgoingText(text)) is called and awaited.
SendTextToChat(j, chat, what, text, pc) ==
    [j EXCEPT !.sendCalls = Append(@, [chatId |-> chat, kind |-> what, text |-> text]),
              !.jobPc = pc]

\* The catch block, lines 78-98, up to its await.
Catch(j, err) ==
    LET chat == Destination(schedule, deps)
        j1 == [j EXCEPT !.caughtError = err]
    IN IF chat # NoValue
       THEN SendTextToChat(j1, chat, "error", ErrorText(schedule, err), "sendError")
       ELSE [j1 EXCEPT !.jobPc = "fulfilled"]

\* buildPromptWithMemory settles, line 39; the agent run is started.
BuildSettles(ok) ==
    /\ jobPc = "build"
    /\ JobCommit(IF ok THEN [J EXCEPT !.jobPc = "run"] ELSE Catch(J, BuildError))

\* runScheduledPromptWithTempAcp settles, line 45; on success the result
\* is routed, lines 47-77, up to the await of sendTextToChat.
RunSettles(ok) ==
    /\ jobPc = "run"
    /\ LET chat == Destination(schedule, deps)
           j1 == [J EXCEPT !.agentResponse = AgentText]
       IN JobCommit(
            IF ~ok THEN Catch(J, AgentError)
            ELSE IF chat = NoValue THEN [j1 EXCEPT !.jobPc = "fulfilled"]
            ELSE SendTextToChat(j1, chat, "result", ResultText(schedule, AgentText),
                                "sendResult"))

\* The send of the result settles: lines 57-67 for an async_conversation
\* job (onConversationComplete may throw; appendContextToAgent is not
\* awaited), line 72-73 otherwise.
ResultSendSettles(ok, throws) ==
    /\ jobPc = "sendResult"
    /\ throws => (ok /\ schedule.type = "async_conversation" /\ deps.onConversationComplete)
    /\ LET j1 == IF schedule.type = "async_conversation" /\ deps.onConversationComplete
                 THEN [J EXCEPT !.storeCalls = Append(@, "onConversationComplete")]
                 ELSE J
           j2 == IF schedule.type = "async_conversation" /\ deps.appendContextToAgent
                 THEN [j1 EXCEPT !.storeCalls = Append(@, "appendContextToAgent")]
                 ELSE j1
       IN JobCommit(
            IF ~ok THEN Catch(J, SendError)
            ELSE IF throws THEN Catch(j1, CallbackError)
            ELSE [j2 EXCEPT !.jobPc = "fulfilled"])

\* The send of the error notification settles, lines 89 and 95: nothing
\* catches its rejection.
ErrorSendSettles(ok) ==
    /\ jobPc = "sendError"
    /\ JobCommit([J EXCEPT !.jobPc = IF ok THEN "fulfilled" ELSE "rejected"])

JobNext ==
    \/ \E ok \in BOOLEAN : BuildSettles(ok)
    \/ \E ok \in BOOLEAN : RunSettles(ok)
    \/ \E ok \in BOOLEAN, throws \in BOOLEAN : ResultSendSettles(ok, throws)
    \/ \E ok \in BOOLEAN : ErrorSendSettles(ok)

JobStart == JobInit /\ QueueInit /\ NoTurn /\ NoRun /\ NoTail /\ NoSlack /\ NoCli

JobSpec == JobStart /\ [][JobNext]_vars

\* ------------------------------------------------------------ Slack chunks
\* src/unnamed/part_001: splitTextIntoChunks (lines 11-31) and
\* SlackMessageContext.sendText (lines 64-73). Texts are sequences of
\* characters.

\* Longest text handed to sendText.
MaxTextLen == 4

\* The values of maxMessageLength explored.
MessageLengths == 1..3

RECURSIVE TextsUpTo(_)
TextsUpTo(n) ==
    IF n = 0 THEN {<<>>}
    ELSE LET shorter == TextsUpTo(n - 1)
         IN shorter \cup {Append(t, c) : t \in {u \in shorter : Len(u) = n - 1},
                                         c \in {"a", "b"}}

SliceSkippingFirst(str, start, end) == SubSeq(str, start + 2, end)

\* String.prototype.slice(start, end) for 0 <= start <= end <= length.
SliceRange(str, start, end) == SubSeq(str, start + 1, end)

\* The loop of splitTextIntoChunks, lines 24-28.
RECURSIVE SplitLoop(_, _, _, _)
SplitLoop(text, maxLen, start, chunks) ==
    IF start < Len(text)
    THEN LET end == IF start + maxLen < Len(text) THEN start + maxLen ELSE Len(text)
         IN SplitLoop(text, maxLen, end, Append(chunks, SliceRange(text, start, end)))
    ELSE chunks

\* splitTextIntoChunks, lines 11-31: the empty text gives one empty chunk.
SplitTextIntoChunks(text, maxLen) ==
    IF text = <<>> THEN <<<<>>>>
    ELSE IF Len(text) <= maxLen THEN <<text>>
    ELSE SplitLoop(text, maxLen, 0, <<>>)

SlackInit ==
    /\ slackText \in TextsUpTo(MaxTextLen)
    /\ maxMessageLength \in MessageLengths
    /\ slackPc = "idle"
    /\ pendingChunks = <<>>
    /\ postedChunks = <<>>

\* sendText is called, line 65: the text is split.
SendText ==
    /\ slackPc = "idle"
    /\ slackPc' = "posting"
    /\ pendingChunks' = SplitTextIntoChunks(slackText, maxMessageLength)
    /\ UNCHANGED <<slackText, maxMessageLength, postedChunks>>
    /\ UNCHANGED <<queueVars, streamVars, runnerVars, tailVars, jobVars, cliVars>>

\* One turn of the loop of sendText, lines 66-72: the next chunk is posted;
\* after the last one sendText returns.
PostMessage ==
    /\ slackPc = "posting"
    /\ postedChunks' = Append(postedChunks, Head(pendingChunks))
    /\ pendingChunks' = Tail(pendingChunks)
    /\ slackPc' = IF Len(pendingChunks) = 1 THEN "done" ELSE "posting"
    /\ UNCHANGED <<slackText, maxMessageLength>>
    /\ UNCHANGED <<queueVars, streamVars, runnerVars, tailVars, jobVars, cliVars>>

SlackNext == SendText \/ PostMessage

SlackStart == SlackInit /\ QueueInit /\ NoTurn /\ NoRun /\ NoTail /\ NoSchedule /\ NoCli

SlackSpec == SlackStart /\ [][SlackNext]_vars

\* ------------------------------------------------------------- PromptModeRun
\* runPromptWithCli (src/unnamed/part_006): one subprocess in the CLI's
\* prompt mode. The model starts when the promise executor of line 42 has run:
\* the process is spawned, the timer armed and the four listeners attached.

\* How many characters of stderr output are followed.
MaxStderrLen == 2

\* options.timeoutMs.
CliTimeouts == {1, 2}

\* The pieces of output the process writes to stdout.
StdoutTexts == {<<" ">>, <<"o">>, <<"o", "k", "\n">>}

\* The `code` of a 'close' event of a process ended by a signal: null.
NoExitCode == -1

\* The (code, signal) pairs of a 'close' event: an exit code, or null and the
\* signal that ended the process.
CloseEvents == {<<0, NoValue>>, <<1, NoValue>>, <<NoExitCode, "SIGKILL">>,
                <<NoExitCode, "SIGTERM">>}

\* The errors of an 'error' event (the process could not be spawned or
\* killed).
ProcessErrors == {<<"spawn ENOENT">>}

\* Line 52.
TimedOutError(ms) == <<"Scheduler prompt timed out after", ms>>

\* Line 85: stderrData.slice(-500).
StderrShown == 500

\* Line 85.
ExitError(code, signal, stderr) ==
    <<"Agent exited with code", code, IF signal # NoValue THEN signal ELSE "",
      Slice(stderr, 0 - StderrShown)>>

CliInit ==
    /\ cliTimeoutMs \in CliTimeouts
    /\ cliClock = 0
    /\ stdoutData = <<>>
    /\ stderrData = <<>>
    /\ cliSettled = FALSE
    /\ cliTimer = "armed"
    /\ cliKills = <<>>
    /\ cliResult = [state |-> "pending", value |-> <<>>]
    /\ cliSettleCalls = 0
    /\ cliEvents = <<>>

CliUnchanged == UNCHANGED <<queueVars, streamVars, runnerVars, tailVars, jobVars, splitVars>>

CliSettledNever(flag) == FALSE

\* `if (settled) return;` of lines 48, 68 and 76.
CliSettled(flag) == flag

\* resolve(value) or reject(error): only the first call settles the promise.
CliSettle(state, value) ==
    /\ cliSettled' = TRUE
    /\ cliSettleCalls' = cliSettleCalls + 1
    /\ cliResult' = IF cliResult.state = "pending"
                    THEN [state |-> state, value |-> value]
                    ELSE cliResult

\* The handler returned at its first line.
CliIgnored == UNCHANGED <<cliSettled, cliSettleCalls, cliResult>>

\* The process has closed: its 'close' event was emitted.
CliClosed == \E i \in 1..Len(cliEvents) : cliEvents[i].kind = "close"

CliEvent(kind, code, signal) ==
    [kind |-> kind, code |-> code, signal |-> signal, stdout |-> stdoutData,
     stderr |-> stderrData]

\* The 'data' listener of stdout, lines 55-57.
CliStdoutData(text) ==
    /\ ~CliClosed
    /\ Len(stdoutData) + Len(text) <= MaxTextLen
    /\ stdoutData' = stdoutData \o text
    /\ UNCHANGED <<cliTimeoutMs, cliClock, stderrData, cliSettled, cliTimer, cliKills,
                   cliResult, cliSettleCalls, cliEvents>>
    /\ CliUnchanged

\* The 'data' listener of stderr, lines 59-65.
CliStderrData(text) ==
    /\ ~CliClosed
    /\ Len(stderrData) + Len(text) <= MaxStderrLen
    /\ stderrData' = stderrData \o text
    /\ UNCHANGED <<cliTimeoutMs, cliClock, stdoutData, cliSettled, cliTimer, cliKills,
                   cliResult, cliSettleCalls, cliEvents>>
    /\ CliUnchanged

\* Time passes; an armed timer fires before time passes it by.
CliTick ==
    /\ cliTimer = "armed"
    /\ cliClock < cliTimeoutMs
    /\ cliClock' = cliClock + 1
    /\ UNCHANGED <<cliTimeoutMs, stdoutData, stderrData, cliSettled, cliTimer, cliKills,
                   cliResult, cliSettleCalls, cliEvents>>
    /\ CliUnchanged

\* The callback of overallTimeout, lines 47-53.
CliTimeoutFires ==
    /\ cliTimer = "armed"
    /\ cliClock >= cliTimeoutMs
    /\ cliTimer' = "fired"
    /\ cliEvents' = Append(cliEvents, CliEvent("timeout", NoExitCode, NoValue))
    /\ IF CliSettled(cliSettled)
       THEN CliIgnored /\ UNCHANGED cliKills
       ELSE /\ cliKills' = Append(cliKills, "SIGKILL")
            /\ CliSettle("rejected", TimedOutError(cliTimeoutMs))
    /\ UNCHANGED <<cliTimeoutMs, cliClock, stdoutData, stderrData>>
    /\ CliUnchanged

\* The 'error' listener, lines 67-73.
CliProcessError(error) ==
    /\ ~\E i \in 1..Len(cliEvents) : cliEvents[i].kind = "error"
    /\ cliEvents' = Append(cliEvents, CliEvent("error", NoExitCode, NoValue))
    /\ IF CliSettled(cliSettled)
       THEN CliIgnored /\ UNCHANGED cliTimer
       ELSE /\ cliTimer' = IF cliTimer = "armed" THEN "cleared" ELSE cliTimer
            /\ CliSettle("rejected", error)
    /\ UNCHANGED <<cliTimeoutMs, cliClock, stdoutData, stderrData, cliKills>>
    /\ CliUnchanged

\* The 'close' listener, lines 75-88.
CliProcessClose(code, signal) ==
    /\ ~CliClosed
    /\ cliEvents' = Append(cliEvents, CliEvent("close", code, signal))
    /\ IF CliSettled(cliSettled)
       THEN CliIgnored /\ UNCHANGED cliTimer
       ELSE /\ cliTimer' = IF cliTimer = "armed" THEN "cleared" ELSE cliTimer
            /\ IF code = 0
               THEN CliSettle("resolved", OrNoResponse(Trim(stdoutData)))
               ELSE CliSettle("rejected", ExitError(code, signal, stderrData))
    /\ UNCHANGED <<cliTimeoutMs, cliClock, stdoutData, stderrData, cliKills>>
    /\ CliUnchanged

CliNext ==
    \/ \E text \in StdoutTexts : CliStdoutData(text)
    \/ \E text \in {<<"x">>} : CliStderrData(text)
    \/ CliTick
    \/ CliTimeoutFires
    \/ \E error \in ProcessErrors : CliProcessError(error)
    \/ \E ev \in CloseEvents : CliProcessClose(ev[1], ev[2])

CliStart == CliInit /\ QueueInit /\ NoTurn /\ NoRun /\ NoTail /\ NoSchedule /\ NoSlack

CliSpec == CliStart /\ [][CliNext]_vars

\* ------------------------------------------------------------------ claims

\* startingLiveMessage is pending only while no live message handle is set.
StartingOnlyWithoutHandle == startingLiveMessage # 0 => liveMessageId = 0

Running == {id \in RequestIds : executor[id].state = "running"}

Settled(id) == executor[id].state \in {"fulfilled", "rejected"}

\* C1: at most one processSingleMessage call is in progress at any time: no
\* executor is running while another has not settled, and at most one
\* processQueue activation is suspended on an executor.
C1_AtMostOneExecutor ==
    /\ Cardinality(Running) <= 1
    /\ Cardinality(awaiting) <= 1

\* C1 witness: an executor is running while a later item waits in the queue.
C1_Witness ==
    /\ Cardinality(Running) = 1
    /\ Len(messageQueue) >= 1
    /\ messageSequence >= 2

\* C2: executors start in strict arrival order: whenever the executor of an
\* item b has been started, the executor of every item a enqueued before it
\* (smaller requestId) has already started and settled, and its processQueue
\* activation has moved on; the pending queue is in arrival order.
C2_ArrivalOrder ==
    /\ \A a \in RequestIds, b \in RequestIds :
          (a < b /\ executor[b].state # "notStarted") => (Settled(a) /\ a \notin awaiting)
    /\ \A i \in 1..Len(messageQueue), j \in 1..Len(messageQueue) :
          i < j => messageQueue[i].requestId < messageQueue[j].requestId

\* C2 witness: item 2 was enqueued while item 1 was executing, item 3 while a
\* drain was active too, and all three have run.
C2_Witness ==
    /\ promise[2].arrivedBusy
    /\ promise[3].arrivedBusy
    /\ \A id \in 1..3 : Settled(id)

\* C3: when the executor of an item rejects, the step that takes the
\* rejection rejects that item's promise and no other promise, and the drain
\* goes on: the item at the head of the queue is started in that same step
\* and the drain stays active; every item pending at that time is later
\* executed and its promise settles as its own executor did.
C3_RejectionIsolated ==
    /\ [][\A id \in RequestIds :
            (id \in awaiting /\ id \notin awaiting' /\ executor[id].state = "rejected") =>
               /\ promise'[id].state = "rejected"
               /\ promise'[id].error = executor[id].error
               /\ \A o \in RequestIds \ {id} : promise'[o] = promise[o]
               /\ Len(messageQueue) > 0 =>
                     /\ executor'[Head(messageQueue).requestId].state = "running"
                     /\ isQueueProcessing']_vars
    /\ \A a \in RequestIds, b \in RequestIds :
          (a < b /\ executor[a].state = "rejected" /\ promise[b].state = "pending") ~>
             (Settled(b) /\ promise[b].state = executor[b].state)

\* C3 witness: item 1 was rejected, and item 2, queued behind it, ran and
\* fulfilled its own promise.
C3_Witness ==
    /\ promise[1].state = "rejected"
    /\ promise[2].arrivedBusy
    /\ promise[2].state = "fulfilled"

\* C4: the promise returned by enqueueMessage settles exactly once, only
\* after its own executor has settled, and with that executor's outcome:
\* fulfilled iff the executor fulfilled, rejected with the executor's error
\* iff it rejected. resolve/reject is called once, by the resumed drain.
C4_PromiseMatchesExecutor ==
    \A id \in RequestIds :
        /\ promise[id].settleCalls <= 1
        /\ promise[id].state = "fulfilled" => executor[id].state = "fulfilled"
        /\ promise[id].state = "rejected" =>
              (executor[id].state = "rejected" /\ promise[id].error = executor[id].error)
        /\ promise[id].state \in {"fulfilled", "rejected"} <=> promise[id].settleCalls = 1
        /\ (Settled(id) /\ id \notin awaiting) => promise[id].state = executor[id].state
        /\ promise[id].state = "none" <=> id > messageSequence

\* C4 witness: one promise fulfilled and one rejected with the error errY.
C4_Witness ==
    /\ promise[1].state = "fulfilled"
    /\ promise[2].state = "rejected"
    /\ promise[2].error = "errY"

\* C5: no item is stranded: whenever no drain is active the pending queue is
\* empty, and (every executor settling eventually) the promise of every
\* enqueued item eventually settles after its executor ran.
C5_NoStarvation ==
    /\ [](~isQueueProcessing => Len(messageQueue) = 0)
    /\ [](Len(messageQueue) > 0 => awaiting # {})
    /\ \A id \in RequestIds :
          (promise[id].state = "pending") ~> (Settled(id) /\ promise[id].state # "pending")

\* C5 witness: an item enqueued while another was executing, and one enqueued
\* after a drain had ended, have both been executed and settled.
C5_Witness ==
    /\ promise[2].arrivedBusy
    /\ promise[2].state # "pending"
    /\ ~promise[3].arrivedBusy
    /\ Settled(3)
    /\ promise[3].state # "pending"

\* The mode of the turn's StreamState.
Mode == IF ~modeDetected THEN "Undecided" ELSE IF isAsyncMode THEN "Async" ELSE "Quick"

LiveOps == {"startLiveMessage", "updateLiveMessage", "finalizeLiveMessage"}

\* The response carries the marker m, after optional leading whitespace.
Marked(m) == StartsWith(Trim(response), m)

\* C6: within one processSingleTelegramMessage invocation the mode changes
\* only from Undecided, and then to Quick or Async; it is assigned a new
\* value at most once; and a turn that started Undecided has been decided
\* exactly once when the prompt has completed, whether that happened in the
\* chunk callback or in the detection after the prompt.
C6_ModeDecidedOnce ==
    /\ [][Mode' # Mode => (Mode = "Undecided" /\ Mode' \in {"Quick", "Async"})]_vars
    /\ [](modeTransitions <= 1)
    /\ []((promptCompleted /\ ~skipHybridMode) => (Mode # "Undecided" /\ modeTransitions = 1))
    /\ [](skipHybridMode => (Mode = "Quick" /\ modeTransitions = 0))

\* C6 witness: a turn decided Async by the chunk callback on a marker split
\* over two chunks, with a further chunk and the prompt's completion after it.
C6_Witness ==
    /\ Mode = "Async"
    /\ chunksSent = 3
    /\ modeTransitions = 1
    /\ mainPc = "done"

\* C7: in a hybrid turn whose response starts with [MODE: QUICK], wherever
\* the chunks split it, the turn is never Async and is Quick once the marker
\* has been passed on; no text handed to startLiveMessage, updateLiveMessage,
\* finalizeLiveMessage or sendText contains the marker; and a turn that
\* completed with one final message and no message rotation begun delivered
\* the text behind the marker (up to surrounding whitespace).
C7_QuickMarkerHidden ==
    (~skipHybridMode /\ Marked(MarkerQuick)) =>
        /\ Mode # "Async"
        /\ (delivered >= IndexOf(response, MarkerQuick) + Len(MarkerQuick) - 1) => Mode = "Quick"
        /\ ~Contains(lastCall.text, MarkerQuick)
        /\ \A i \in 1..Len(finals) : ~Contains(finals[i].text, MarkerQuick)
        /\ (mainPc = "done" /\ Len(finals) = 1 /\ chunkCalls = {}) =>
              Trim(finals[1].text) =
                 Trim(SubSeq(response, IndexOf(response, MarkerQuick) + Len(MarkerQuick),
                             Len(response)))

\* C7 witness: the chunks "[MO", "DE: QUICK] Hel", "lo" were delivered as the
\* one final text "Hello".
C7_Witness ==
    /\ response = RespQuick
    /\ prefixBuffer = SubSeq(RespQuick, 1, 17)
    /\ chunksSent = 3
    /\ mainPc = "done"
    /\ Len(finals) = 1
    /\ finals[1].text = <<"H", "e", "l", "l", "o">>

\* C8: a turn classified Async has called none of startLiveMessage,
\* updateLiveMessage and finalizeLiveMessage; until the prompt completes it
\* has scheduled and sent nothing; from then on scheduleAsyncJob has been
\* called exactly once, with the request text, the chat id and a job
\* reference, and sendText exactly once, with a text that ends in that same
\* reference. A turn that is not Async schedules no job.
C8_AsyncNoLiveMessage ==
    /\ isAsyncMode => \A op \in LiveOps : callCount[op] = 0
    /\ (isAsyncMode /\ ~promptCompleted) => (job = NoJob /\ callCount["sendText"] = 0)
    /\ (isAsyncMode /\ promptCompleted) =>
          /\ job.calls = 1
          /\ job.text = requestText
          /\ job.chatId = chatId
          /\ job.jobRef \in JobRefs
          /\ callCount["sendText"] = 1
          /\ lastCall.op = "sendText"
          /\ Len(lastCall.text) >= 2
          /\ lastCall.text[Len(lastCall.text)] = job.jobRef
          /\ lastCall.text[Len(lastCall.text) - 1] = "Reference: "
    /\ ~isAsyncMode => job = NoJob

\* C8 witness: the response "[MODE: ASYNC] doing it", streamed in several
\* chunks, was acknowledged and its job scheduled.
C8_Witness ==
    /\ response = RespAsync
    /\ isAsyncMode
    /\ chunksSent >= 2
    /\ job.state = "fulfilled"
    /\ mainPc = "done"

\* C9: the rejection of the promise scheduleAsyncJob returned changes
\* nothing of the turn (its position, its error, its calls on the message
\* context); the acknowledgment has been handed to sendText as soon as the
\* job is scheduled; and an Async turn that scheduled its job fails only if
\* sendText itself rejected.
C9_AckDecoupledFromJob ==
    /\ [][(job.state = "pending" /\ job'.state = "rejected") =>
            UNCHANGED <<mainPc, mainError, lastCall, callCount, finals>>]_vars
    /\ [](job.state # "none" => (callCount["sendText"] = 1 /\ mainPc \in {"ack", "done", "failed"}))
    /\ []((job.state # "none" /\ mainPc = "failed") => mainError = "sendText failed")

\* C9 witness: the job was rejected and the turn completed without error.
C9_Witness ==
    /\ job.state = "rejected"
    /\ mainPc = "done"
    /\ mainError = NoValue
    /\ callCount["sendText"] = 1

\* The final text of a hybrid turn whose prompt completed without a marker.
Unmarked == ~skipHybridMode /\ ~Marked(MarkerQuick) /\ ~Marked(MarkerAsync) /\ promptCompleted

\* C10 as stated: when the prompt completes and no marker was matched, the
\* turn is Quick and every final text is the whole response, unmodified.
C10_Original ==
    Unmarked =>
        /\ Mode = "Quick"
        /\ \A i \in 1..Len(finals) : finals[i].text = response

\* C10, amended: when the prompt completes and no marker was matched, the
\* turn is Quick, no job is scheduled, and the one final text is the whole
\* response, unmodified, if it is not empty, and 'No response received.' if
\* it is empty; the turn fails only if sendText rejected.
C10_FallbackDelivers ==
    Unmarked =>
        /\ Mode = "Quick"
        /\ job = NoJob
        /\ Len(finals) <= 1
        /\ \A i \in 1..Len(finals) :
              finals[i].text = (IF response = <<>> THEN NoResponseReceived ELSE response)
        /\ mainPc = "done" => Len(finals) = 1
        /\ mainPc = "failed" => mainError = "sendText failed"

\* C10 witness: the response "42", streamed as "4" and "2", was delivered
\* as "42".
C10_Witness ==
    /\ response = RespPlain
    /\ ~skipHybridMode
    /\ chunksSent = 2
    /\ mainPc = "done"
    /\ Len(finals) = 1
    /\ finals[1].text = <<"4", "2">>

\* C11 as stated: in a Quick turn whose prompt has completed, the completion
\* starts no live message (a turn without one delivers by sendText alone);
\* a completed turn that never called startLiveMessage has called sendText
\* exactly once, with the final text; and a completed turn with a live
\* message has finalized it with the whole buffer.
C11_Original ==
    (Mode = "Quick" /\ promptCompleted) =>
        /\ \A f \in flushes : f.owner = OwnerMain => f.pc # "ownStart"
        /\ (mainPc = "done" /\ callCount["startLiveMessage"] = 0) =>
              (callCount["sendText"] = 1 /\ finals[Len(finals)].op = "sendText")
        /\ (mainPc = "done" /\ liveMessageId # 0 /\ chunkCalls = {}) =>
              finals[Len(finals)] = [op |-> "finalizeLiveMessage", handle |-> liveMessageId,
                                     text |-> OrNoResponse(previewBuffer)]

\* The live message with handle h has received its final edit.
Finalized(h) == \E i \in 1..Len(finals) : finals[i].op = "finalizeLiveMessage" /\ finals[i].handle = h

\* C12 as stated: when the turn has ended because the prompt failed, and
\* every flush and chunk callback still pending at that time has run to its
\* end, every live message that was started has been finalized or is the
\* one removeMessage was called for.
C12_Original ==
    (mainPc = "failed" /\ mainError = "prompt failed" /\ flushes = {} /\ chunkCalls = {}
        /\ debounceDue = 0) =>
        \A h \in 1..(nextHandle - 1) :
            Finalized(h) \/ (h = liveMessageId /\ callCount["removeMessage"] = 1)

\* C13 as stated: a chunk that arrives in Quick mode at least
\* messageGapThresholdMs after the previous chunk, while a live message with
\* visible text is active, is not appended before finalizeCurrentMessage has
\* been entered for that live message.
C13_Original ==
    [][(/\ chunksSent' = chunksSent + 1
        /\ Mode = "Quick"
        /\ lastChunkAt > 0
        /\ now - lastChunkAt >= messageGapThresholdMs
        /\ liveMessageId # 0
        /\ Trim(previewBuffer) # <<>>) =>
           (previewBuffer' = previewBuffer /\ Cardinality(chunkCalls') = Cardinality(chunkCalls) + 1)]_vars

\* C14 as stated: an updateLiveMessage call that follows another one is
\* issued at least streamUpdateIntervalMs after it, also when it is made by a
\* forced flush (gap finalization, completion).
C14_Original ==
    [][(/\ callCount'["updateLiveMessage"] = callCount["updateLiveMessage"] + 1
        /\ lastCall.op = "updateLiveMessage") =>
           now - lastCall.at >= streamUpdateIntervalMs]_vars

\* C15 as stated: every text handed to a final delivery (finalizeLiveMessage,
\* also on gap rotation, and the final sendText) is the whole buffer of that
\* moment (or the placeholder for an empty one), not its truncated preview.
C15_Original ==
    [][Len(finals') = Len(finals) + 1 =>
          finals'[Len(finals')].text = OrNoResponse(previewBuffer')]_vars

\* The texts of the own session's message chunks in a log, concatenated.
RECURSIVE OwnText(_)
OwnText(log) ==
    IF log = <<>>
    THEN <<>>
    ELSE (IF Head(log).sessionId = OwnSession THEN Head(log).text ELSE <<>>) \o OwnText(Tail(log))

\* The step in which the caller of runPromptWithTempAcp gets a text.
RunResolves == runResult.state = "pending" /\ runResult'.state = "resolved"

\* C16 as stated: the text runPromptWithTempAcp resolves with is the
\* concatenation, in arrival order, of the own session's message chunks.
C16_Original == [][RunResolves => runResult'.value = OwnText(arrived')]_vars

\* C16, amended: the text runPromptWithTempAcp resolves with is the
\* concatenation, in arrival order, of the message chunks received for its
\* own session (chunks of other sessions contribute nothing), or, if that is
\* empty, the text 'No response received.'.
C16_ResolvesWithChunks ==
    [][RunResolves =>
          runResult'.value =
             (IF OwnText(arrived') = <<>> THEN NoResponseReceived ELSE OwnText(arrived'))]_vars

\* C16 witness: chunks "a" and "c" of the own session, with a chunk of
\* another session between them, were returned as "ac".
C16_Witness ==
    /\ runResult.state = "resolved"
    /\ runResult.value = <<"a", "c">>
    /\ Len(arrived) = 3
    /\ arrived[2].sessionId # OwnSession

C18_Original ==
    /\ (overallTimeout # 0 /\ ~cleanedUp) => overallTimeout = timeoutMs
    /\ clock > timeoutMs => (settledFlag \/ cleanedUp \/ "overall" \in fired)

\* The timeout errors of the deadlines in a set of fired timers.
DeadlineErrors(ks) ==
    {IF k = "idle" THEN IdleError ELSE OverallError : k \in ks}

\* C19 as stated: a deadline that fires issues a protocol cancel, and a run
\* that settles after a deadline has fired settles with a rejection carrying
\* the timeout error of a deadline that fired, never with a resolution or
\* another error.
C19_Original ==
    [][/\ fired' # fired => cancelCount' = cancelCount + 1
       /\ (fired # {} /\ ~settledFlag /\ settledFlag') =>
             (handler'.kind = "reject" /\ handler'.error \in DeadlineErrors(fired))]_vars

\* C20: teardown is idempotent. Whatever paths call settle and cleanup, the
\* subprocess is sent at most one termination signal (exactly one when it was
\* still running when cleanup came to terminate it), at most one settle
\* handler ever runs, and a run that has returned through settle has run
\* exactly one and has its result.
C20_TeardownOnce ==
    /\ Len(signals) <= 1
    /\ settleRuns <= 1
    /\ cleanupPc = "terminate" => signals = <<"SIGTERM">>
    /\ (cleanupPc = "done" /\ signals = <<>>) => exited
    /\ runPc = "returned" =>
          /\ runResult.state # "pending"
          /\ cleanupPc = "done"
          /\ handler.kind # "rethrow" => settleRuns = 1

\* C20 witness: a deadline fired and the prompt settled too, both callbacks
\* have called settle, and the run has returned after one SIGTERM and one
\* settlement.
C20_Witness ==
    /\ runPc = "returned"
    /\ fired # {}
    /\ promptState = "answered"
    /\ cancelling = {}
    /\ signals = <<"SIGTERM">>
    /\ settleRuns = 1

\* C21 as stated: teardown is two-stage. When the wait of
\* terminateProcessGracefully ends, SIGTERM has been sent; if the subprocess
\* has exited nothing more was sent, and if it has not (the grace period
\* elapsed first) SIGKILL was sent after SIGTERM.
C21_Original ==
    [][(cleanupPc = "terminate" /\ cleanupPc' = "done") =>
          IF exited'
          THEN signals' = <<"SIGTERM">>
          ELSE signals' = <<"SIGTERM", "SIGKILL">>]_vars

\* C22: the caller observes the result or the error only after teardown has
\* run to completion: cleanup has run and returned, it cleared the overall
\* timer, a cancel was sent if a session existed, and the termination wait
\* is over (the subprocess has exited or was sent SIGTERM).
C22_TeardownBeforeResult ==
    runResult.state # "pending" =>
        /\ cleanedUp
        /\ cleanupPc = "done"
        /\ runPc = "returned"
        /\ overallTimeout = 0
        /\ tempSessionId # NoValue => cancelCount >= 1
        /\ exited \/ signals = <<"SIGTERM">>

\* C22 witness: the overall deadline fired, cleanup sent its own cancel and
\* SIGTERM, and the caller then saw the timeout error.
C22_Witness ==
    /\ runResult.state = "rejected"
    /\ runResult.error = OverallError
    /\ cancelCount >= 2
    /\ signals = <<"SIGTERM">>
    /\ cleanupPc = "done"

\* C23 as stated: once cleanup has completed no idle or overall timer is
\* armed, and no protocol cancel is issued any more, whatever activity
\* arrives afterwards.
C23_Original ==
    /\ [](cleanupPc = "done" => (noOutputTimeout = 0 /\ overallTimeout = 0))
    /\ [][cleanupPc = "done" => cancelCount' = cancelCount]_vars

\* The last n characters of str (all of it when it is shorter).
LastChars(str, n) ==
    IF Len(str) <= n THEN str ELSE SubSeq(str, Len(str) - n + 1, Len(str))

\* C24 as stated: for every bound, 0 included, the retained stderr tail is
\* never longer than stderrTailMaxChars and is the most recent characters
\* written.
C24_Original ==
    /\ Len(tempStderrTail) <= stderrTailMaxChars
    /\ tempStderrTail = LastChars(stderrWritten, stderrTailMaxChars)

\* C25 as stated: when the caller cancels a running invocation a protocol
\* cancel is issued, as when a deadline fires, and the run, settling after
\* that, settles with a rejection.
C25_Original ==
    [][/\ (~callerCancelled /\ callerCancelled') => cancelCount' = cancelCount + 1
       /\ (callerCancelled /\ ~settledFlag /\ settledFlag') => handler'.kind = "reject"]_vars

\* The chat the schedule's messages are to go to, NoValue for none:
\* metadata.chatId for an async_conversation job, the bound target chat
\* otherwise.
ExpectedChat ==
    IF schedule.type = "async_conversation" THEN schedule.chatId ELSE deps.targetChatId

\* The context-store callbacks an async_conversation job makes.
ExpectedStoreCalls ==
    (IF deps.onConversationComplete THEN <<"onConversationComplete">> ELSE <<>>)
        \o (IF deps.appendContextToAgent THEN <<"appendContextToAgent">> ELSE <<>>)

\* C26: after a successful agent run the result is routed by schedule type.
\* The first message sent is the result, to metadata.chatId for an
\* async_conversation job and to the bound target chat otherwise; with no
\* such chat nothing is sent and the job ends. The context store is called
\* only by an async_conversation job whose result was sent, and gets every
\* callback supplied when the job ends without an error. Without a
\* successful run no result is sent and nothing is stored.
C26_ResultRouting ==
    /\ agentResponse = NoValue =>
          /\ storeCalls = <<>>
          /\ \A i \in 1..Len(sendCalls) : sendCalls[i].kind # "result"
    /\ (agentResponse # NoValue /\ ExpectedChat = NoValue) =>
          (sendCalls = <<>> /\ storeCalls = <<>> /\ jobPc = "fulfilled")
    /\ (agentResponse # NoValue /\ ExpectedChat # NoValue) =>
          /\ Len(sendCalls) >= 1
          /\ sendCalls[1] = [chatId |-> ExpectedChat, kind |-> "result",
                              text |-> IF schedule.type = "async_conversation"
                                       THEN <<"Background task completed.",
                                              ScheduleMessage, agentResponse>>
                                       ELSE <<agentResponse>>]
          /\ \A i \in 2..Len(sendCalls) : sendCalls[i].kind # "result"
          /\ schedule.type # "async_conversation" => storeCalls = <<>>
          /\ jobPc = "sendResult" => storeCalls = <<>>
          /\ (schedule.type = "async_conversation" /\ jobPc = "fulfilled"
                /\ caughtError = NoValue) => storeCalls = ExpectedStoreCalls

\* C26 witness: an async_conversation job with a chat id ended after
\* sending its result there and calling both context-store callbacks.
C26_Witness ==
    /\ schedule.type = "async_conversation"
    /\ jobPc = "fulfilled"
    /\ sendCalls = <<[chatId |-> "chatM", kind |-> "result",
                      text |-> <<"Background task completed.", ScheduleMessage, AgentText>>]>>
    /\ storeCalls = <<"onConversationComplete", "appendContextToAgent">>

\* The result has been delivered: its send was called and has fulfilled.
ResultDelivered ==
    /\ \E i \in 1..Len(sendCalls) : sendCalls[i].kind = "result"
    /\ jobPc # "sendResult"
    /\ caughtError # SendError

\* C27 as stated: when the job has failed (its catch block has run) the
\* result has not been delivered, and an error notification naming the
\* schedule's description or message has been sent to the chat the result
\* would have gone to, if there is one.
C27_Original ==
    caughtError # NoValue =>
        /\ ~ResultDelivered
        /\ \A i \in 1..Len(sendCalls) :
              sendCalls[i].kind = "error" =>
                  /\ sendCalls[i].chatId = ExpectedChat
                  /\ sendCalls[i].text[2] \in {schedule.description, ScheduleMessage} \ {""}
        /\ ExpectedChat # NoValue =>
              \E i \in 1..Len(sendCalls) : sendCalls[i].kind = "error"

\* C28 as stated: whatever its dependencies do, the promise handleScheduledJob
\* returns is never rejected.
C28_Original == jobPc # "rejected"

\* C29: an async_conversation schedule that fires without a chat id in its
\* metadata sends no message to any chat and makes no context-store call,
\* whether the agent run succeeds or fails; it ends without an error
\* notification.
C29_MissingChatIdDropped ==
    (schedule.type = "async_conversation" /\ schedule.chatId = NoValue) =>
        /\ sendCalls = <<>>
        /\ storeCalls = <<>>
        /\ jobPc \in {"build", "run", "fulfilled"}

\* C29 witness: such a schedule fired while a target chat was bound and
\* both callbacks were supplied; the agent run succeeded and the job ended
\* with nothing sent.
C29_Witness ==
    /\ schedule.type = "async_conversation"
    /\ schedule.chatId = NoValue
    /\ deps = [targetChatId |-> "chatT", onConversationComplete |-> TRUE,
               appendContextToAgent |-> TRUE]
    /\ agentResponse = AgentText
    /\ jobPc = "fulfilled"
    /\ sendCalls = <<>>

\* The concatenation of a sequence of texts.
RECURSIVE Concat(_)
Concat(texts) == IF texts = <<>> THEN <<>> ELSE Head(texts) \o Concat(Tail(texts))

\* C30: Slack chunking is lossless and ordered. For every text and every
\* maxMessageLength >= 1 the split ends, every chunk posted or still to post
\* is at most maxMessageLength long, the chunks posted followed by those
\* still to post concatenate to the original text, and so do the chunks
\* posted once sendText has finished.
C30_ChunksLossless ==
    slackPc # "idle" =>
        /\ \A i \in 1..Len(postedChunks) : Len(postedChunks[i]) <= maxMessageLength
        /\ \A i \in 1..Len(pendingChunks) : Len(pendingChunks[i]) <= maxMessageLength
        /\ Concat(postedChunks \o pendingChunks) = slackText
        /\ slackPc = "done" => (pendingChunks = <<>> /\ Concat(postedChunks) = slackText)

\* C30 witness: a text longer than one message has been posted in two
\* chunks, the second one shorter.
C30_Witness ==
    /\ slackText = <<"a", "b", "b", "a">>
    /\ maxMessageLength = 3
    /\ slackPc = "done"
    /\ postedChunks = <<<<"a", "b", "b">>, <<"a">>>>

\* C31: a live message handle is set only in Quick mode and only after a
\* flush with non-empty text has started a live message: liveMessageId is
\* never set while the mode is Undecided or Async, and every
\* startLiveMessage call is made in Quick mode with a non-empty text.
C31_HandleOnlyInQuick ==
    /\ [](liveMessageId # 0 => (Mode = "Quick" /\ callCount["startLiveMessage"] >= 1))
    /\ [][callCount'["startLiveMessage"] > callCount["startLiveMessage"] =>
            (Mode' = "Quick" /\ lastCall'.op = "startLiveMessage" /\ lastCall'.text # <<>>)]_vars

\* C31 witness: in a hybrid turn classified Quick from the stream, a live
\* message handle is set while the prompt is still running.
C31_Witness ==
    /\ ~skipHybridMode
    /\ liveMessageId # 0
    /\ Mode = "Quick"
    /\ mainPc = "prompt"
    /\ lastCall.text # <<>>

\* C32: live-message edits are never reordered: the updateLiveMessage calls
\* made for one live message are issued in the order their flushes were
\* invoked, so that each carries a snapshot of the buffer taken later than
\* the previous edit's (a flush takes its snapshot when it is invoked), also
\* when flushes overlap.
C32_EditsInOrder ==
    \A i, j \in 1..Len(edits) :
        (i < j /\ edits[i].handle = edits[j].handle) => edits[i].seq < edits[j].seq

\* C32 witness: three flushes overlap on one live message: the one that
\* started it and two invoked while startLiveMessage was pending, the later
\* ones with more of the response; all three edits have been issued and
\* still await updateLiveMessage.
C32_Witness ==
    \E f, g, h \in flushes :
        /\ f.pc = "update" /\ g.pc = "update" /\ h.pc = "update"
        /\ f.shot.seq < g.shot.seq /\ g.shot.seq < h.shot.seq
        /\ f.shot.snap < h.shot.snap
        /\ Len(edits) = 3
        /\ edits[1].handle = edits[3].handle /\ edits[2].handle = edits[3].handle
        /\ edits[1].seq = f.shot.seq /\ edits[3].seq = h.shot.seq

\* The gap of the chunk callback's test (lines 229-230) has elapsed while
\* the prompt is running: no chunk for more than messageGapThresholdMs, a
\* live message is shown and the buffer has content.
GapElapsed ==
    /\ mainPc = "prompt"
    /\ lastChunkAt > 0
    /\ now - lastChunkAt > messageGapThresholdMs
    /\ liveMessageId # 0
    /\ Trim(previewBuffer) # <<>>

FinalizedHandles(fs) ==
    {fs[i].handle : i \in {k \in 1..Len(fs) : fs[k].op = "finalizeLiveMessage"}}

\* C33 as stated: once no chunk has arrived for messageGapThresholdMs while
\* a live message has pending content, the live message has been finalized
\* (at that moment, not when a later chunk arrives or the prompt completes),
\* and a finalized live message is not edited again.
C33_Original ==
    /\ [](GapElapsed => liveMessageId \in FinalizedHandles(finals))
    /\ [][\A k \in (Len(edits) + 1)..Len(edits') :
              edits'[k].handle \notin FinalizedHandles(finals)]_vars

\* C34 as stated: every text passed to startLiveMessage or updateLiveMessage
\* is at most maxResponseLength long, and one that was cut ends with its
\* ellipsis as character number maxResponseLength.
C34_Original ==
    lastCall.op \in {"startLiveMessage", "updateLiveMessage"} =>
        /\ Len(lastCall.text) <= maxResponseLength
        /\ \A i \in 1..Len(lastCall.text) :
              lastCall.text[i] = Ellipsis => i = maxResponseLength

\* The texts of the final deliveries made so far, in order.
FinalTexts == [i \in 1..Len(finals) |-> finals[i].text]

\* The response without its Quick marker.
StrippedResponse == IF skipHybridMode THEN response ELSE StripQuickMarker(response)

\* C35 as stated: in a Quick turn that has completed normally, with every
\* chunk callback run to its end, the texts of the finalized messages
\* followed by the final delivery concatenate to the marker-stripped
\* response (up to surrounding whitespace); finalizeLiveMessage is called at
\* most once per live handle and never without a handle.
C35_Original ==
    /\ (mainPc = "done" /\ Mode = "Quick" /\ response # <<>> /\ flushes = {}
            /\ chunkCalls = {} /\ debounceDue = 0) =>
          Trim(Concat(FinalTexts)) = Trim(StrippedResponse)
    /\ \A i \in 1..Len(finals) :
          finals[i].op = "finalizeLiveMessage" =>
              /\ finals[i].handle # 0
              /\ \A j \in 1..Len(finals) :
                    (j # i /\ finals[j].op = "finalizeLiveMessage") =>
                        finals[j].handle # finals[i].handle

\* C36 as stated: once the promise of processSingleTelegramMessage has
\* settled, fulfilled or rejected, no startLiveMessage, updateLiveMessage or
\* finalizeLiveMessage call is made for the turn.
C36_Original ==
    [][(mainPc = "done" \/ mainPc = "failed") =>
          (\A op \in LiveOps : callCount'[op] = callCount[op])]_vars

\* The turn has ended: the promise of processSingleTelegramMessage has
\* settled.
TurnEnded == mainPc = "done" \/ mainPc = "failed"

\* The typing indicator is stopped exactly once, in the step that ends the
\* turn, after every delivery call the body itself makes (finalizeLiveMessage
\* at line 305, sendText at lines 288 and 324, removeMessage at line 342).
TypingStoppedOnExit ==
    /\ [](typingStops = (IF TurnEnded THEN 1 ELSE 0))
    /\ [][(typingStops' = typingStops + 1) =>
              /\ mainPc \in {"prompt", "finalFlush", "finalize", "send", "ack", "remove"}
              /\ TurnEnded'
              /\ Len(finals') = Len(finals)
              /\ callCount'["sendText"] = callCount["sendText"]
              /\ callCount'["removeMessage"] = callCount["removeMessage"]]_vars

\* C37 as stated: the typing indicator is stopped exactly once on every exit
\* path, and only after all of the turn's final delivery calls have been
\* made: once it is stopped, no finalizeLiveMessage and no sendText follows.
C37_Original ==
    /\ [](typingStops = (IF TurnEnded THEN 1 ELSE 0))
    /\ [][(typingStops >= 1) =>
              (finals' = finals /\ callCount'["sendText"] = callCount["sendText"])]_vars

\* The final text of a Quick turn whose response arrives as one chunk: the
\* chunk callback (or the end-of-prompt detection) removes the marker and
\* the whitespace behind it from the whole response.
OneChunkText == IF skipHybridMode THEN response ELSE StripQuickMarker(response)

\* The mode of a turn whose response arrives as one chunk.
OneChunkMode == IF ~skipHybridMode /\ Marked(MarkerAsync) THEN "Async" ELSE "Quick"

\* C38 as stated: the mode and the final text do not depend on the chunk
\* boundaries. A turn that completed with all its chunks delivered at the
\* same instant (no gap at all) has the mode and, in Quick mode, the one
\* final text it has when the response arrives as a single chunk, the
\* whitespace after the marker included.
C38_Original ==
    (mainPc = "done" /\ now = StartTime /\ response # <<>>) =>
        /\ Mode = OneChunkMode
        /\ Mode = "Quick" => (Len(finals) = 1 /\ finals[1].text = OneChunkText)

\* The sendTextToChat calls of one kind made so far.
SendsOf(kind) == {i \in 1..Len(sendCalls) : sendCalls[i].kind = kind}

\* C39 as stated: one handleScheduledJob invocation sends at most one
\* user-facing message: the result or the error notification, each at most
\* once, and never an error notification after the result was delivered,
\* whichever dependency fails.
C39_Original ==
    /\ Cardinality(SendsOf("result")) <= 1
    /\ Cardinality(SendsOf("error")) <= 1
    /\ ~(ResultDelivered /\ SendsOf("error") # {})

\* The promise of runPromptWithCli is settled once, by the first of the
\* timeout, 'error' and 'close' events, and nothing later changes it: before
\* any event it is pending with the timer armed; afterwards resolve or reject
\* has been called once, the timeout sent SIGKILL and rejected with the
\* timeout error, an 'error' rejected with the error and cleared the timer,
\* and a 'close' cleared the timer and resolved with the trimmed stdout (or
\* with `placeholder` when that is empty) for exit code 0, or rejected with
\* the exit error for another code or a signal.
SettledByFirstEvent(placeholder) ==
    IF cliEvents = <<>>
    THEN /\ cliResult.state = "pending"
         /\ cliSettleCalls = 0
         /\ ~cliSettled
         /\ cliTimer = "armed"
         /\ cliKills = <<>>
    ELSE LET e == cliEvents[1]
         IN /\ cliSettleCalls = 1
            /\ cliSettled
            /\ cliKills = (IF e.kind = "timeout" THEN <<"SIGKILL">> ELSE <<>>)
            /\ cliTimer = (IF e.kind = "timeout" THEN "fired" ELSE "cleared")
            /\ CASE e.kind = "timeout" ->
                      cliResult = [state |-> "rejected",
                                   value |-> <<"Scheduler prompt timed out after", cliTimeoutMs>>]
                 [] e.kind = "error" ->
                      cliResult.state = "rejected" /\ cliResult.value \in ProcessErrors
                 [] e.kind = "close" /\ e.code = 0 ->
                      cliResult = [state |-> "resolved",
                                   value |-> IF Trim(e.stdout) = <<>>
                                             THEN placeholder
                                             ELSE Trim(e.stdout)]
                 [] OTHER ->
                      /\ cliResult.state = "rejected"
                      /\ cliResult.value[1] = "Agent exited with code"
                      /\ cliResult.value[2] = e.code
                      /\ cliResult.value[3] = (IF e.signal # NoValue THEN e.signal ELSE "")

\* C40 as stated: runPromptWithCli settles once, by the first of timeout,
\* 'error' and 'close'; a close with exit code 0 resolves with the trimmed
\* stdout, whatever it is.
C40_Original == SettledByFirstEvent(<<>>)

\* C40, amended: runPromptWithCli settles once, by the first of timeout,
\* 'error' and 'close'; the timeout sends SIGKILL and rejects with the
\* timeout error; a close with exit code 0 resolves with the trimmed stdout,
\* or with 'No response received.' when the trimmed stdout is empty; a close
\* with another code or a signal rejects; every later event is ignored and
\* the timer is cleared when 'error' or 'close' wins.
C40_SettlesOnce == SettledByFirstEvent(<<"No response received.">>)

\* C40 witness: the process wrote only a blank to stdout and closed with
\* code 0, so the promise resolved with the placeholder; an 'error' event
\* that followed was ignored.
C40_Witness ==
    /\ Len(cliEvents) = 2
    /\ cliEvents[1].kind = "close" /\ cliEvents[1].code = 0
    /\ cliEvents[1].stdout = <<" ">>
    /\ cliEvents[2].kind = "error"
    /\ cliResult = [state |-> "resolved", value |-> <<"No response received.">>]

====
